---------------------------- MODULE Spec2Model ----------------------------
(***************************************************************************)
(* Model of the scrcpy-go WebRTC bridge (cowby123/scrcpy, goapp).          *)
(*                                                                         *)
(* The repository holds three generations of the same program:             *)
(*   "legacy" - goapp/main.go: one device, one global track                *)
(*   "gin"    - package main split over session.go, utils.go,              *)
(*              internal/stream/processor.go:196-597 and unnamed/part_007  *)
(*              (per-device sessions, client registry)                     *)
(*   "pkg"    - goapp/internal/{stream,video,webrtc,device,input}          *)
(* The variable build says which generation is running; it is chosen in    *)
(* Init and never changes.                                                 *)
(***************************************************************************)
EXTENDS Integers, Sequences, FiniteSets, TLC

\* ------------------------------------------------------------------ bounds
MaxAU == 2
MaxPLI == 1
MaxStateChanges == 1
MaxRemoteID == 11
MaxCtrlWrites == 3

\* ------------------------------------------------------- program constants
rtpPayloadChannelSize == 3
maxPointers == 10
ptsPerSecond == 1000000
clockRate == 90000
controlReadBufMax == 1048576
deviceMsgTypeClipboard == 0

Builds == {"legacy", "gin", "pkg"}
Subs == {"s1", "s2"}
Devices == {"d1", "d2"}
\* the device ids each subscriber may put in its /offer
Asks(s) == IF s = "s1" THEN {"d1"} ELSE Devices
None == "none"

\* ----------------------------------------------- fixed-width arithmetic
\* A uint64 is 8 bytes and a uint32 is 4 bytes, least significant first.
Bytes(n, k) == [i \in 1..k |-> IF i <= 4 THEN (n \div (256 ^ (i - 1))) % 256 ELSE 0]
U64(n) == Bytes(n, 8)
Zero32 == Bytes(0, 4)

RECURSIVE Borrow(_, _, _)
Borrow(a, b, i) ==
    IF i = 0 THEN 0
    ELSE IF a[i] - b[i] - Borrow(a, b, i - 1) < 0 THEN 1 ELSE 0

\* a - b in uint64
Sub64(a, b) == [i \in 1..8 |-> (a[i] - b[i] - Borrow(a, b, i - 1) + 256) % 256]

RECURSIVE MulCarry(_, _, _)
MulCarry(a, m, i) ==
    IF i = 0 THEN 0 ELSE (a[i] * m + MulCarry(a, m, i - 1)) \div 256

\* a * m in uint64 (m a small constant)
Mul64(a, m) == [i \in 1..8 |-> (a[i] * m + MulCarry(a, m, i - 1)) % 256]

RECURSIVE DivRem(_, _, _)
DivRem(a, d, i) ==
    IF i = 9 THEN 0 ELSE (DivRem(a, d, i + 1) * 256 + a[i]) % d

\* a / d in uint64 (d a small constant)
Div64(a, d) == [i \in 1..8 |-> (DivRem(a, d, i + 1) * 256 + a[i]) \div d]

\* uint32(a)
Trunc32(a) == [i \in 1..4 |-> a[i]]

RECURSIVE AddCarry(_, _, _)
AddCarry(x, y, i) ==
    IF i = 0 THEN 0 ELSE (x[i] + y[i] + AddCarry(x, y, i - 1)) \div 256

\* x + y in uint32
Add32(x, y) == [i \in 1..4 |-> (x[i] + y[i] + AddCarry(x, y, i - 1)) % 256]

RECURSIVE LessFrom(_, _, _)
LessFrom(x, y, i) ==
    IF i = 0 THEN FALSE
    ELSE IF x[i] # y[i] THEN x[i] < y[i] ELSE LessFrom(x, y, i - 1)

\* x < y for two uint32
Less32(x, y) == LessFrom(x, y, 4)

\* main.go / part_000: uint32((delta * 90000) / ptsPerSecond)
rtpTSFromPTS(pts, base) ==
    Trunc32(Div64(Mul64(Sub64(pts, base), clockRate), ptsPerSecond))

\* internal/video: uint32((delta * 9) / 100)
RTPTSFromPTS(pts, base) ==
    Trunc32(Div64(Mul64(Sub64(pts, base), 9), 100))


\* the same quotient without the 64-bit limit: numbers of WideBytes bytes
WideBytes == 11
Wide(a) == [i \in 1..WideBytes |-> IF i <= 8 THEN a[i] ELSE 0]
MulWide(a, m) == [i \in 1..WideBytes |-> (a[i] * m + MulCarry(a, m, i - 1)) % 256]

RECURSIVE DivRemWide(_, _, _)
DivRemWide(a, d, i) ==
    IF i = WideBytes + 1 THEN 0 ELSE (DivRemWide(a, d, i + 1) * 256 + a[i]) % d

DivWide(a, d) == [i \in 1..WideBytes |-> (DivRemWide(a, d, i + 1) * 256 + a[i]) \div d]

\* floor((pts - base) * 90000 / 1000000) mod 2^32
ExactTS(pts, base) ==
    Trunc32(DivWide(MulWide(Wide(Sub64(pts, base)), clockRate), ptsPerSecond))

\* x <= y for two uint64
LessEq64(x, y) == ~LessFrom(y, x, 8)

\* 2^k as a uint64
PtsBits == 64
Pow2(k) == [i \in 1..8 |-> IF i = (k \div 8) + 1 THEN 2 ^ (k % 8) ELSE 0]

\* ------------------------------------------------------------ NAL units
\* A NAL unit is its type (low 5 bits of the first byte), an identity of its
\* bytes (only compared for SPS/PPS) and the number of RTP packets the
\* packetizer cuts it into (1: single NAL, 2: FU-A fragments).
Slice == [typ |-> 1, id |-> 0, pk |-> 1]
IDR == [typ |-> 5, id |-> 0, pk |-> 2]
SPS(i) == [typ |-> 7, id |-> i, pk |-> 1]
PPS(i) == [typ |-> 8, id |-> i, pk |-> 1]

\* the frames the device agent may send (result of splitAnnexBNALUs)
AUKinds == {"P", "I", "C"}
Frame(kind) ==
    CASE kind = "P" -> <<Slice>>
      [] kind = "I" -> <<IDR>>
      [] kind = "C" -> <<SPS(1), PPS(1)>>
      [] kind = "CI" -> <<SPS(1), PPS(1), IDR>>
      [] kind = "S" -> <<SPS(1)>>

\* presentation timestamp (microseconds) of the i-th frame: 30 frames a second
PtsOf(i) == 1000000 + 33333 * (i - 1)

naluType(n) == n.typ

\* parseH264SPSDimensions succeeds on every SPS the agent sends here
parseH264SPSDimensions(n) == n.typ = 7

VARIABLES
    build,          \* which generation of the program runs
    deviceSessions, \* devices registered in the device map
    readerPc,       \* "read" | "gate" | "ops" | "exited"
    ops,            \* steps left for the frame being handled
    frameCount,     \* history: number of frames read so far
    cur,            \* the frame being handled
    lastPts,        \* last pts sent by the agent
    havePTS0, pts0, rtpTS0,
    lastSPS, lastPPS,
    needKeyframe,   \* per device
    framesSinceKF,
    frameChannel, chanClosed,
    framesDropped,
    senderPc,       \* "recv" | "write" | "exited"
    sendCur, sendSnap,
    clients,        \* registry: subscribers the sender writes to
    subDev,         \* device each subscriber asked for
    phase,          \* "idle" | "offering" | "live"
    pcState,        \* peer connection state
    pliCount,
    pliSeen,        \* history: PLI/FIR packets received so far
    attachLen,      \* history: length of the track log at the 200 answer
    resetWrites,    \* RESET_VIDEO messages written, per device
    trackLog,       \* what was written to each subscriber's track
    auIdr,          \* history: auIdr[i] iff frame i holds an IDR
    enteredAt,      \* history: frames at which the gate was entered
    resumedAt,      \* history: frames at which the gate went back to streaming
    acceptedAUs,    \* history: frames whose access unit entered the queue
    cancelLen,      \* history: length of the track log when the PC was cancelled
    stateChanges,   \* number of peer connection state changes so far
    pliGate         \* history: frames first gated after a PLI that a live
                    \* subscriber sent while the device was streaming with
                    \* SPS and PPS cached

VARIABLE ptsConv   \* history: the last pts, its base and the timestamp it got
VARIABLE offerStatus \* history: HTTP status of the last refused /offer, 0 if none
VARIABLE annexb \* history: the last Annex-B buffer that was split and the result
VARIABLE locks \* tasks and mutexes: position of each task, holder of each lock, chunks on the control socket
VARIABLE ctlRead \* the control reader: bytes still to come from the device, messages sent and messages parsed (history)
VARIABLE boot \* gin build, per device: how far runAndroidStreaming has come, frames read; whether the process (HTTP service) runs
VARIABLE dcs \* concurrent touch handlers: the event each data channel is handling, the holder of touchMu, the messages in slot-mapper order and in socket order (history)
VARIABLE ctrl      \* control writes: ok and err are the counters control_writes_ok
                   \* and control_writes_err, run is the number of failures in a
                   \* row up to now (history)
\* the tasks that take locks and write to the control socket of one device
Tasks == {"touch", "rtcp", "reader", "health", "offer"}
\* touchMu: slot mutex; pointerMu: button mutex; StateMu: device state lock
\* (stateMu of main.go); devicesMu, clientsMu: registry locks; statsMu: the
\* package-level stateMu of the gin build (counters); controlMu: control writer
Locks == {"touchMu", "pointerMu", "StateMu", "devicesMu", "clientsMu", "statsMu", "controlMu"}
NoLocks == [pc |-> [t \in Tasks |-> 1], held |-> [l \in Locks |-> None], sock |-> <<>>]
NoSplit == [nalus |-> <<>>, buf |-> <<>>, out |-> <<>>, done |-> FALSE]
NoRead == [stream |-> <<>>, sent |-> <<>>, seen |-> <<>>, pc |-> "idle"]
NoBoot == [up |-> TRUE, phase |-> [d \in Devices |-> "boot"], reads |-> [d \in Devices |-> 0]]
NoTouches == [pc |-> [c \in {"dc1", "dc2"} |-> "idle"],
              msg |-> [c \in {"dc1", "dc2"} |-> [action |-> "none", pointerID |-> 0]],
              mu |-> "none", n |-> 0, mapped |-> <<>>, wire |-> <<>>,
              own |-> {}, last |-> [c |-> "none", typ |-> "none", r |-> 0]]
NoConv == [pts |-> U64(0), base |-> U64(0), ts |-> Zero32, done |-> FALSE]

videoVars == <<deviceSessions, readerPc, ops, frameCount, cur, lastPts, havePTS0,
               pts0, rtpTS0, lastSPS, lastPPS, needKeyframe, framesSinceKF,
               frameChannel, chanClosed, framesDropped, senderPc, sendCur,
               sendSnap, clients, subDev, phase, pcState, pliCount,
               pliSeen, attachLen, resetWrites, trackLog, auIdr, enteredAt, resumedAt, stateChanges,
               acceptedAUs, cancelLen, pliGate>>

NoFrame == [nalus |-> <<>>, ts |-> Zero32, idr |-> FALSE, newSPS |-> FALSE]
NoPayload == [NALUs |-> <<>>, RTPTimestamp |-> Zero32, IsAccessUnit |-> FALSE, au |-> 0]

RtpPayload(nalus, ts, isAU, au) ==
    [NALUs |-> nalus, RTPTimestamp |-> ts, IsAccessUnit |-> isAU, au |-> au]

InitVideo ==
    /\ deviceSessions = Devices
    /\ readerPc = "read"
    /\ ops = <<>>
    /\ frameCount = 0
    /\ cur = NoFrame
    /\ lastPts = 0
    /\ havePTS0 = FALSE
    /\ pts0 = U64(0)
    /\ rtpTS0 = Zero32
    /\ lastSPS = 0
    /\ lastPPS = 0
    /\ needKeyframe = [d \in Devices |-> FALSE]
    /\ framesSinceKF = 0
    /\ frameChannel = <<>>
    /\ chanClosed = FALSE
    /\ framesDropped = 0
    /\ senderPc = "recv"
    /\ sendCur = NoPayload
    /\ sendSnap = {}
    /\ clients = {}
    /\ subDev = [s \in Subs |-> None]
    /\ phase = [s \in Subs |-> "idle"]
    /\ pcState = [s \in Subs |-> "new"]
    /\ pliCount = 0
    /\ pliSeen = 0
    /\ attachLen = [s \in Subs |-> 0]
    /\ resetWrites = [d \in Devices |-> 0]
    /\ trackLog = [s \in Subs |-> <<>>]
    /\ auIdr = <<>>
    /\ enteredAt = {}
    /\ resumedAt = {}
    /\ acceptedAUs = {}
    /\ cancelLen = [s \in Subs |-> -1]
    /\ stateChanges = 0
    /\ pliGate = {}

\* legacy: main() returns when runAndroidStreaming returns
processAlive == ~(build = "legacy" /\ readerPc = "exited")

\* ------------------------------------------------------------ touch slots
VARIABLES
    touchLocalByRemote, \* remote pointer id -> local slot, NoSlot if absent
    touchRemoteByLocal, \* local slot -> remote pointer id, 0 if free
    touchSlotUsed,      \* local slot -> in use
    touchResult,        \* how the last touch event left its handler
    pointerButtons,     \* pointer id on the wire -> buttons last sent for it
    touchEv,            \* the last event handed to the handler
    touchMsg            \* the control message that event produced, if any

touchVars == <<touchLocalByRemote, touchRemoteByLocal, touchSlotUsed, touchResult,
               pointerButtons, touchEv, touchMsg>>

Slots == 0..(maxPointers - 1)
Remotes == 1..MaxRemoteID
NoSlot == -1
TouchTypes == {"down", "move", "up", "cancel"}
PointerIDs == 0..maxPointers
\* a uint32 button mask is the set of its bits
NoButtons == {}
NoEv == [typ |-> "none"]
NoMsg == [action |-> -1]

InitTouch ==
    /\ touchLocalByRemote = [r \in Remotes |-> NoSlot]
    /\ touchRemoteByLocal = [i \in Slots |-> 0]
    /\ touchSlotUsed = [i \in Slots |-> FALSE]
    /\ touchResult = "none"
    /\ pointerButtons = [p \in PointerIDs |-> NoButtons]
    /\ touchEv = NoEv
    /\ touchMsg = NoMsg

TouchState == [byRemote |-> touchLocalByRemote, byLocal |-> touchRemoteByLocal,
               used |-> touchSlotUsed]

\* for i := 0; i < maxPointers; i++ { if !touchSlotUsed[i] {...} }
FreeSlots(t) == {i \in Slots : ~t.used[i]}
LowestFree(t) == CHOOSE i \in FreeSlots(t) : \A j \in FreeSlots(t) : i <= j

Take(t, remote, i) ==
    [byRemote |-> [t.byRemote EXCEPT ![remote] = i],
     byLocal |-> [t.byLocal EXCEPT ![i] = remote],
     used |-> [t.used EXCEPT ![i] = TRUE]]

getLocalSlot(t, remote) ==
    IF t.byRemote[remote] # NoSlot
    THEN [s |-> t.byRemote[remote], ok |-> TRUE]
    ELSE [s |-> 0, ok |-> FALSE]

\* an allocator that hands out slot 0 whatever is in use
allocLocalSlotFirst(t, remote) ==
    [t |-> Take(t, remote, 0), s |-> 0, ok |-> TRUE]

\* main.go:506, part_007:48: the slot the remote id already has, else the
\* lowest free slot, else nothing
allocLocalSlot(t, remote) ==
    IF t.byRemote[remote] # NoSlot
    THEN [t |-> t, s |-> t.byRemote[remote], ok |-> TRUE]
    ELSE IF FreeSlots(t) = {} THEN [t |-> t, s |-> 0, ok |-> FALSE]
    ELSE [t |-> Take(t, remote, LowestFree(t)), s |-> LowestFree(t), ok |-> TRUE]

\* touch.go:29: the lowest free slot, else nothing; a remote id that already
\* has a slot gets a second one
AllocLocalSlot(t, remote) ==
    IF FreeSlots(t) = {} THEN [t |-> t, s |-> 0, ok |-> FALSE]
    ELSE [t |-> Take(t, remote, LowestFree(t)), s |-> LowestFree(t), ok |-> TRUE]

\* main.go:523, part_007:65, touch.go:42
freeLocalSlot(t, remote) ==
    IF t.byRemote[remote] # NoSlot
    THEN [byRemote |-> [t.byRemote EXCEPT ![remote] = NoSlot],
          byLocal |-> [t.byLocal EXCEPT ![t.byRemote[remote]] = 0],
          used |-> [t.used EXCEPT ![t.byRemote[remote]] = FALSE]]
    ELSE t

\* the slot part of handleTouchEvent for a touch pointer:
\* legacy main.go:611-640, gin part_007:141-170, pkg touch.go:82-113
TouchOutcome(typ, remote) ==
    LET t == TouchState IN
    IF build = "pkg"
    THEN CASE typ = "down" ->
                LET a == AllocLocalSlot(t, remote) IN
                [t |-> a.t, s |-> a.s, res |-> IF a.ok THEN "sent" ELSE "dropped"]
           [] typ = "move" ->
                [t |-> t, s |-> getLocalSlot(t, remote).s,
                 res |-> IF getLocalSlot(t, remote).ok THEN "sent" ELSE "dropped"]
           [] typ = "up" ->
                IF getLocalSlot(t, remote).ok
                THEN [t |-> freeLocalSlot(t, remote), s |-> getLocalSlot(t, remote).s,
                      res |-> "sent"]
                ELSE [t |-> t, s |-> 0, res |-> "dropped"]
           [] OTHER -> [t |-> t, s |-> 0, res |-> "sent"]
    ELSE CASE typ = "down" ->
                LET a == allocLocalSlot(t, remote) IN
                [t |-> a.t, s |-> a.s, res |-> IF a.ok THEN "sent" ELSE "dropped"]
           [] typ \in {"up", "cancel"} ->
                IF getLocalSlot(t, remote).ok
                THEN [t |-> freeLocalSlot(t, remote), s |-> getLocalSlot(t, remote).s,
                      res |-> "sent"]
                ELSE [t |-> t, s |-> 0, res |-> "dropped"]
           [] OTHER ->
                [t |-> t, s |-> getLocalSlot(t, remote).s,
                 res |-> IF getLocalSlot(t, remote).ok THEN "sent" ELSE "dropped"]

\* the browser: the pointers of FreeRemotes come and go as they like; the
\* others are put down one after the other and stay down
FreeRemotes == {1}
Browser(typ, remote) ==
    \/ remote \in FreeRemotes
    \/ /\ remote \notin FreeRemotes
       /\ typ = "down"
       /\ touchLocalByRemote[remote] = NoSlot
       /\ \A r \in Remotes \ FreeRemotes : r < remote => touchLocalByRemote[r] # NoSlot
    \/ /\ remote \notin FreeRemotes
       /\ typ = "move"
       /\ remote = MaxRemoteID

\* ev.Type -> action byte: main.go:590-601, part_007:121-132, touch.go:118-127
ActionOf(typ) ==
    IF build = "pkg"
    THEN CASE typ = "down" -> 0 [] typ = "up" -> 1 [] typ = "move" -> 2 [] OTHER -> 0
    ELSE CASE typ = "down" -> 0 [] typ = "up" -> 1 [] typ = "move" -> 2
           [] typ = "cancel" -> 3 [] OTHER -> 2

Max(a, b) == IF a >= b THEN a ELSE b
Min(a, b) == IF a <= b THEN a ELSE b

\* main.go:562-572: the screen size of the event, else the size of the video
ScreenOf(ev, videoW, videoH) ==
    IF ev.screenW = 0 \/ ev.screenH = 0
    THEN [w |-> videoW, h |-> videoH]
    ELSE [w |-> ev.screenW, h |-> ev.screenH]

\* main.go:574-586: below 0 always, above the edge only if both sizes are > 0
Clamp(v, sw, sh, edge) ==
    IF sw > 0 /\ sh > 0 THEN Min(Max(v, 0), edge - 1) ELSE Max(v, 0)

\* touch.go:133: uint32(ev.X) of a float64.  A value in range converts to
\* itself; for a negative one the result depends on the target (0 on arm64,
\* the wrapped bit pattern on amd64, written here as the negative number)
FloatToU32(v) == IF v >= 0 THEN {v} ELSE {0, v}

\* an encoder that reports the buttons that are down, not the ones that changed
ActionButtonLevel(action, nowButtons, prevButtons) == nowButtons

\* main.go:650-657, part_007:180-187: x &^ y is x \ y on sets of bits
ActionButton(action, nowButtons, prevButtons) ==
    CASE action = 0 -> nowButtons \ prevButtons
      [] action = 1 -> prevButtons \ nowButtons
      [] OTHER -> NoButtons

\* legacy main.go:551-709 and gin part_007:76-239
HandleLegacy(ev, videoW, videoH) ==
    LET scr == ScreenOf(ev, videoW, videoH)
        x == Clamp(ev.x, scr.w, scr.h, scr.w)
        y == Clamp(ev.y, scr.w, scr.h, scr.h)
        action == ActionOf(ev.typ)
        touch == ev.pointerType = "touch"
        o == IF touch THEN TouchOutcome(ev.typ, ev.id)
             ELSE [t |-> TouchState, s |-> 0,
                   res |-> IF action = 2 /\ ev.buttons = NoButtons
                           THEN "dropped" ELSE "sent"]
        pointerID == IF touch THEN o.s + 1 ELSE 0
        prevButtons == pointerButtons[pointerID]
        nowButtons == IF touch THEN NoButtons ELSE ev.buttons
        actionButton == ActionButton(action, nowButtons, prevButtons)
    IN  IF (build = "gin" /\ "d1" \notin deviceSessions) \/ o.res = "dropped"
        THEN [t |-> TouchState, pb |-> pointerButtons, res |-> "dropped", msg |-> NoMsg]
        ELSE [t |-> o.t,
              pb |-> [pointerButtons EXCEPT ![pointerID] =
                         IF action \in {1, 3} THEN NoButtons ELSE nowButtons],
              res |-> "sent",
              msg |-> [action |-> action, pointerId |-> pointerID, x |-> x, y |-> y,
                       screenW |-> scr.w, screenH |-> scr.h,
                       actionButton |-> actionButton, buttons |-> nowButtons]]

\* pkg touch.go:82-158: no pointer type, no buttons, no clamp, pointerId = slot
HandlePkg(ev, fx, fy) ==
    LET o == TouchOutcome(ev.typ, ev.id) IN
    IF o.res = "dropped"
    THEN [t |-> TouchState, pb |-> pointerButtons, res |-> "dropped", msg |-> NoMsg]
    ELSE [t |-> o.t, pb |-> pointerButtons, res |-> "sent",
          msg |-> [action |-> ActionOf(ev.typ), pointerId |-> o.s, x |-> fx, y |-> fy,
                   screenW |-> ev.screenW, screenH |-> ev.screenH,
                   actionButton |-> NoButtons, buttons |-> NoButtons]]

\* one touch event from the data channel, through the handler of the build
HandleTouchEvent(ev, videoW, videoH) ==
    /\ \E r \in (IF build = "pkg"
                 THEN {HandlePkg(ev, fx, fy) : fx \in FloatToU32(ev.x),
                                               fy \in FloatToU32(ev.y)}
                 ELSE {HandleLegacy(ev, videoW, videoH)}) :
         /\ touchLocalByRemote' = r.t.byRemote
         /\ touchRemoteByLocal' = r.t.byLocal
         /\ touchSlotUsed' = r.t.used
         /\ touchResult' = r.res
         /\ pointerButtons' = r.pb
         /\ touchMsg' = r.msg
    /\ touchEv' = ev
    /\ UNCHANGED <<build, videoVars, ptsConv, offerStatus, ctrl, annexb, locks, ctlRead, boot, dcs>>

\* the event of a finger on a 1080 x 1920 screen
ScreenW == 1080
ScreenH == 1920
FingerEvent(typ, remote) ==
    [typ |-> typ, id |-> remote, x |-> 100, y |-> 200, screenW |-> ScreenW,
     screenH |-> ScreenH, buttons |-> NoButtons, pointerType |-> "touch"]

handleTouchEvent(typ, remote) ==
    /\ Browser(typ, remote)
    /\ HandleTouchEvent(FingerEvent(typ, remote), ScreenW, ScreenH)

\* ------------------------------------------------------------ the queue
\* a send that puts the payload at the head of the channel
pushToRTPChannelHead(ch, dropped, payload) ==
    IF Len(ch) < rtpPayloadChannelSize
    THEN [ch |-> <<payload>> \o ch, dropped |-> dropped]
    ELSE [ch |-> ch, dropped |-> dropped + 1]

\* utils.go: non-blocking send; a full channel drops the payload and counts it
pushToRTPChannel(ch, dropped, payload) ==
    IF Len(ch) < rtpPayloadChannelSize
    THEN [ch |-> Append(ch, payload), dropped |-> dropped]
    ELSE [ch |-> ch, dropped |-> dropped + 1]

\* internal/video/rtp.go: the same send; the drop is only logged
PushToChannel(ch, dropped, payload) ==
    IF Len(ch) < rtpPayloadChannelSize
    THEN [ch |-> Append(ch, payload), dropped |-> dropped]
    ELSE [ch |-> ch, dropped |-> dropped]

\* main.go / utils.go clearFrameChannel: receive until the channel is empty
clearFrameChannel(ch) == <<>>

Push(ch, dropped, payload) ==
    IF build = "pkg" THEN PushToChannel(ch, dropped, payload)
    ELSE pushToRTPChannel(ch, dropped, payload)

\* ------------------------------------------------------------ the reader
\* PTS -> RTP timestamp of the running build
TSFromPTS(pts, base) ==
    IF build = "pkg" THEN RTPTSFromPTS(pts, base) ELSE rtpTSFromPTS(pts, base)

\* the scan over the NAL units of one frame: SPS/PPS cache, gotNewSPS, IDR
RECURSIVE ScanNALUs(_, _, _)
ScanNALUs(nalus, i, acc) ==
    IF i > Len(nalus) THEN acc
    ELSE LET n == nalus[i] IN
         ScanNALUs(nalus, i + 1,
            CASE naluType(n) = 7 ->
                    [acc EXCEPT !.sps = n.id,
                                !.new = acc.new \/ (acc.sps # n.id /\ parseH264SPSDimensions(n))]
              [] naluType(n) = 8 -> [acc EXCEPT !.pps = n.id]
              [] naluType(n) = 5 -> [acc EXCEPT !.idr = TRUE]
              [] OTHER -> acc)

\* one iteration of the read loop up to the parsed frame: meta, PTS mapping,
\* frame body, splitAnnexBNALUs and the NAL scan
ReadAU(kinds) ==
    /\ readerPc = "read"
    /\ frameCount < MaxAU
    /\ \E kind \in kinds :
        /\ LET p == PtsOf(frameCount + 1)
               base == IF havePTS0 THEN pts0 ELSE U64(p)
               ts == Add32(Zero32, TSFromPTS(U64(p), base))
               scan == ScanNALUs(Frame(kind), 1,
                          [sps |-> lastSPS, pps |-> lastPPS, new |-> FALSE, idr |-> FALSE])
           IN /\ lastPts' = p
              /\ havePTS0' = TRUE
              /\ pts0' = base
              /\ rtpTS0' = IF havePTS0 THEN rtpTS0 ELSE Zero32
              /\ lastSPS' = scan.sps
              /\ lastPPS' = scan.pps
              /\ cur' = [nalus |-> Frame(kind), ts |-> ts, idr |-> scan.idr, newSPS |-> scan.new]
              /\ auIdr' = Append(auIdr, scan.idr)
    /\ frameCount' = frameCount + 1
    /\ readerPc' = "gate"
    /\ UNCHANGED <<build, deviceSessions, ops, needKeyframe, framesSinceKF,
                   frameChannel, chanClosed, framesDropped, senderPc, sendCur,
                   sendSnap, clients, subDev, phase, pcState, pliCount,
                   pliSeen, attachLen, resetWrites, trackLog, enteredAt, stateChanges, resumedAt,
                   acceptedAUs, cancelLen, pliGate, ptsConv, offerStatus, ctrl, annexb, locks, ctlRead, boot, dcs, touchVars>>

SpsNalu == SPS(lastSPS)
PpsNalu == PPS(lastPPS)

\* a gate that forwards every access unit, whatever the flag says
GateOpsNoHold(waitKF) ==
    <<<<[op |-> "push", p |-> RtpPayload(cur.nalus, cur.ts, TRUE, frameCount)]>>>>

\* the keyframe gate for one frame, in program order, as three blocks:
\* the new-SPS block, the wait block, the resume/forward block
GateOps(waitKF) ==
    LET sps == RtpPayload(<<SpsNalu>>, cur.ts, FALSE, frameCount)
        pps == RtpPayload(<<PpsNalu>>, cur.ts, FALSE, frameCount)
        au == RtpPayload(cur.nalus, cur.ts, TRUE, frameCount)
        onNewSPS ==
            (IF lastSPS # 0 THEN <<[op |-> "push", p |-> sps]>> ELSE <<>>)
            \o (IF lastPPS # 0 THEN <<[op |-> "push", p |-> pps]>> ELSE <<>>)
            \o <<[op |-> "setNeed"], [op |-> "reqKF"]>>
        onWait ==
            (IF lastSPS # 0 /\ lastPPS # 0
             THEN <<[op |-> "push", p |-> sps], [op |-> "push", p |-> pps]>>
             ELSE <<[op |-> "reqKF"]>>)
            \o <<[op |-> "incKF"]>>
        onIDR == <<[op |-> "clearNeed"], [op |-> "push", p |-> au]>>
    IN (IF cur.newSPS THEN <<onNewSPS>> ELSE <<>>)
       \o (IF waitKF \/ cur.newSPS
           THEN <<onWait>> \o (IF cur.idr THEN <<onIDR>> ELSE <<>>)
           ELSE <<<<[op |-> "push", p |-> au]>>>>)

\* the effect of one statement of a block on the device state
RunOp(o, st) ==
    LET r == IF o.op = "push" THEN Push(st.ch, st.dropped, o.p)
             ELSE [ch |-> st.ch, dropped |-> st.dropped]
        reask == o.op = "incKF" /\ (st.fskf + 1) % 30 = 0
    IN [ch |-> r.ch,
        dropped |-> r.dropped,
        need |-> CASE o.op = "setNeed" -> TRUE
                   [] o.op = "clearNeed" -> FALSE
                   [] OTHER -> st.need,
        fskf |-> CASE o.op = "incKF" -> st.fskf + 1
                   [] o.op = "clearNeed" -> 0
                   [] OTHER -> st.fskf,
        resets |-> IF o.op = "reqKF" \/ reask THEN st.resets + 1 ELSE st.resets,
        entered |-> IF o.op = "setNeed" /\ ~st.need
                    THEN st.entered \cup {frameCount} ELSE st.entered,
        resumed |-> IF o.op = "clearNeed"
                    THEN st.resumed \cup {frameCount} ELSE st.resumed,
        accepted |-> IF o.op = "push" /\ o.p.IsAccessUnit /\ Len(r.ch) > Len(st.ch)
                     THEN st.accepted \cup {frameCount} ELSE st.accepted]

RECURSIVE RunOps(_, _)
RunOps(block, st) ==
    IF block = <<>> THEN st ELSE RunOps(Tail(block), RunOp(Head(block), st))

\* waitKF := NeedKeyframe under the state lock
GateRead ==
    /\ readerPc = "gate"
    /\ ops' = GateOps(needKeyframe["d1"])
    /\ readerPc' = "ops"
    /\ UNCHANGED <<build, deviceSessions, frameCount, cur, lastPts, havePTS0, pts0,
                   rtpTS0, lastSPS, lastPPS, needKeyframe, framesSinceKF,
                   frameChannel, chanClosed, framesDropped, senderPc, sendCur,
                   sendSnap, clients, subDev, phase, pcState, pliCount,
                   pliSeen, attachLen, resetWrites, trackLog, auIdr, enteredAt,
                   stateChanges, resumedAt,
                   acceptedAUs, cancelLen, pliGate, ptsConv, offerStatus, ctrl, annexb, locks, ctlRead, boot, dcs, touchVars>>

\* the next block of the gate
GateStep ==
    /\ readerPc = "ops"
    /\ LET st == RunOps(Head(ops),
                   [ch |-> frameChannel, dropped |-> framesDropped,
                    need |-> needKeyframe["d1"], fskf |-> framesSinceKF,
                    resets |-> resetWrites["d1"], entered |-> enteredAt,
                    resumed |-> resumedAt, accepted |-> acceptedAUs])
       IN /\ frameChannel' = st.ch
          /\ framesDropped' = st.dropped
          /\ needKeyframe' = [needKeyframe EXCEPT !["d1"] = st.need]
          /\ framesSinceKF' = st.fskf
          /\ resetWrites' = [resetWrites EXCEPT !["d1"] = st.resets]
          /\ enteredAt' = st.entered
          /\ resumedAt' = st.resumed
          /\ acceptedAUs' = st.accepted
    /\ ops' = Tail(ops)
    /\ readerPc' = IF Len(ops) = 1 THEN "read" ELSE "ops"
    /\ UNCHANGED <<build, deviceSessions, frameCount, cur, lastPts, havePTS0, pts0,
                   rtpTS0, lastSPS, lastPPS, chanClosed, senderPc, sendCur,
                   sendSnap, clients, subDev, phase, pcState, pliCount,
                   pliSeen, attachLen, trackLog, auIdr, stateChanges,
                   cancelLen, pliGate, ptsConv, offerStatus, ctrl, annexb, locks, ctlRead, boot, dcs, touchVars>>

\* a read on the video socket fails (EOF or error): the loop breaks and
\* runAndroidStreaming returns through its deferred calls
ReaderEOF ==
    /\ readerPc = "read"
    /\ readerPc' = "exited"
    /\ chanClosed' = (build = "gin")
    /\ deviceSessions' = IF build = "gin" THEN deviceSessions \ {"d1"} ELSE deviceSessions
    /\ UNCHANGED <<build, ops, frameCount, cur, lastPts, havePTS0, pts0, rtpTS0,
                   lastSPS, lastPPS, needKeyframe, framesSinceKF, frameChannel,
                   framesDropped, senderPc, sendCur, sendSnap, clients, subDev,
                   phase, pcState, pliCount, pliSeen, attachLen, resetWrites,
                   trackLog, auIdr,
                   enteredAt, stateChanges, resumedAt,
                   acceptedAUs, cancelLen, pliGate, ptsConv, offerStatus, ctrl, annexb, locks, ctlRead, boot, dcs, touchVars>>

\* ------------------------------------------------------------ the sender
\* the RTP packets of one NAL unit: pk.Packetize(n, 0), Timestamp and Marker
\* overwritten by the caller; last says what the final packet's Marker is
PacketsOf(n, ts, last) ==
    [j \in 1..n.pk |-> [ts |-> ts, marker |-> (j = n.pk /\ last), typ |-> n.typ]]

RECURSIVE Flatten(_)
Flatten(ss) == IF ss = <<>> THEN <<>> ELSE Head(ss) \o Flatten(Tail(ss))

\* processor.go:203 / main.go:988 / rtp.go:22: Marker only on the last packet
\* of the last NAL unit
sendNALUAccessUnitAtTS(nalus, ts) ==
    Flatten([i \in 1..Len(nalus) |-> PacketsOf(nalus[i], ts, i = Len(nalus))])

\* processor.go:241 / main.go:1013: p.Marker = false on every packet
sendNALUsAtTS(ts, nalus) ==
    Flatten([i \in 1..Len(nalus) |-> PacketsOf(nalus[i], ts, FALSE)])

\* rtp.go:54: only p.Timestamp is overwritten; the Marker stays what the
\* packetizer put on the last packet of the NAL unit (libMarker)
SendNALUs(ts, nalus, libMarker) ==
    Flatten([i \in 1..Len(nalus) |-> PacketsOf(nalus[i], ts, libMarker)])

HasIDR(nalus) == \E i \in 1..Len(nalus) : nalus[i].typ = 5

\* what one payload leaves on a track
Written(p, libMarker) ==
    [au |-> p.au, isAU |-> p.IsAccessUnit, idr |-> HasIDR(p.NALUs),
     pkts |-> IF p.IsAccessUnit THEN sendNALUAccessUnitAtTS(p.NALUs, p.RTPTimestamp)
              ELSE IF build = "pkg" THEN SendNALUs(p.RTPTimestamp, p.NALUs, libMarker)
              ELSE sendNALUsAtTS(p.RTPTimestamp, p.NALUs)]

\* a list of every client of the registry, whatever its device
GetClientsOfAll(d) == clients

\* helpers.go:86 / processor.go:208: the clients of one device, copied under
\* the registry lock
GetClientsByDevice(d) == {s \in clients : subDev[s] = d}

\* payload := <-frameChannel, then the list of clients to write to
SenderRecv ==
    /\ processAlive
    /\ senderPc = "recv"
    /\ frameChannel # <<>>
    /\ sendCur' = Head(frameChannel)
    /\ frameChannel' = Tail(frameChannel)
    /\ sendSnap' = GetClientsByDevice("d1")
    /\ senderPc' = "write"
    /\ UNCHANGED <<build, deviceSessions, readerPc, ops, frameCount, cur, lastPts,
                   havePTS0, pts0, rtpTS0, lastSPS, lastPPS, needKeyframe,
                   framesSinceKF, chanClosed, framesDropped, clients, subDev,
                   phase, pcState, pliCount, pliSeen, attachLen, resetWrites,
                   trackLog, auIdr, enteredAt, stateChanges, resumedAt,
                   acceptedAUs, cancelLen, pliGate, ptsConv, offerStatus, ctrl, annexb, locks, ctlRead, boot, dcs, touchVars>>

\* WriteRTP of every packet to every client of the list
SenderWrite ==
    /\ processAlive
    /\ senderPc = "write"
    /\ \E libMarker \in (IF build = "pkg" /\ ~sendCur.IsAccessUnit THEN BOOLEAN ELSE {FALSE}) :
         trackLog' = [s \in Subs |->
                        IF s \in sendSnap THEN Append(trackLog[s], Written(sendCur, libMarker))
                        ELSE trackLog[s]]
    /\ sendCur' = NoPayload
    /\ sendSnap' = {}
    /\ senderPc' = "recv"
    /\ UNCHANGED <<build, deviceSessions, readerPc, ops, frameCount, cur, lastPts,
                   havePTS0, pts0, rtpTS0, lastSPS, lastPPS, needKeyframe,
                   framesSinceKF, frameChannel, chanClosed, framesDropped,
                   clients, subDev, phase, pcState, pliCount, pliSeen, attachLen,
                   resetWrites, auIdr, enteredAt, stateChanges, resumedAt,
                   acceptedAUs, cancelLen, pliGate, ptsConv, offerStatus, ctrl, annexb, locks, ctlRead, boot, dcs, touchVars>>

\* the range over a closed and drained channel ends
SenderExit ==
    /\ processAlive
    /\ senderPc = "recv"
    /\ frameChannel = <<>>
    /\ chanClosed
    /\ senderPc' = "exited"
    /\ UNCHANGED <<build, deviceSessions, readerPc, ops, frameCount, cur, lastPts,
                   havePTS0, pts0, rtpTS0, lastSPS, lastPPS, needKeyframe,
                   framesSinceKF, frameChannel, chanClosed, framesDropped,
                   sendCur, sendSnap, clients, subDev, phase, pcState, pliCount,
                   pliSeen, attachLen, resetWrites, trackLog, auIdr, enteredAt, stateChanges, resumedAt,
                   acceptedAUs, cancelLen, pliGate, ptsConv, offerStatus, ctrl, annexb, locks, ctlRead, boot, dcs, touchVars>>

\* ------------------------------------------------------------ subscribers
\* index of the next frame whose gate check is still to come
NextGated == IF readerPc = "gate" THEN frameCount ELSE frameCount + 1

\* device d forwards frames and has both parameter sets cached
Streaming(d) == d = "d1" /\ processAlive /\ readerPc # "exited"
                /\ ~needKeyframe[d] /\ lastSPS # 0 /\ lastPPS # 0

\* needKeyframe := true for device d, by a subscriber
Enter(d) == IF d = "d1" /\ ~needKeyframe["d1"] THEN enteredAt \cup {NextGated} ELSE enteredAt

\* /offer up to the point where the callbacks are installed.
\* gin (part_007:389-577) and pkg (handler.go:33-137) register the client
\* here; legacy (main.go:775-922) only creates the peer connection.
OfferBegin(s, d) ==
    /\ processAlive
    /\ phase[s] = "idle"
    /\ IF build = "legacy" THEN d = "d1" ELSE d \in deviceSessions
    /\ phase' = [phase EXCEPT ![s] = "offering"]
    /\ subDev' = [subDev EXCEPT ![s] = d]
    /\ clients' = IF build = "legacy" THEN clients ELSE clients \cup {s}
    /\ UNCHANGED <<build, deviceSessions, readerPc, ops, frameCount, cur, lastPts,
                   havePTS0, pts0, rtpTS0, lastSPS, lastPPS, needKeyframe,
                   framesSinceKF, frameChannel, chanClosed, framesDropped,
                   senderPc, sendCur, sendSnap, pcState, pliCount, pliSeen,
                   attachLen, resetWrites, trackLog, auIdr, enteredAt,
                   stateChanges, resumedAt,
                   acceptedAUs, cancelLen, pliGate, ptsConv, offerStatus, ctrl, annexb, locks, ctlRead, boot, dcs, touchVars>>

\* /offer from the end of ICE gathering to the 200 answer.
\* gin (part_007:604-617), pkg (handler.go:158-166): needKeyframe and a
\* keyframe request; legacy (main.go:938-966) also installs the global track
\* and resets the PTS mapping.
OfferEnd(s) ==
    /\ processAlive
    /\ phase[s] = "offering"
    /\ phase' = [phase EXCEPT ![s] = "live"]
    /\ needKeyframe' = [needKeyframe EXCEPT ![subDev[s]] = TRUE]
    /\ enteredAt' = Enter(subDev[s])
    /\ resetWrites' = [resetWrites EXCEPT ![subDev[s]] = @ + 1]
    /\ clients' = IF build = "legacy" THEN {s} ELSE clients
    /\ havePTS0' = IF build = "legacy" THEN FALSE ELSE havePTS0
    /\ pts0' = IF build = "legacy" THEN U64(0) ELSE pts0
    /\ rtpTS0' = IF build = "legacy" THEN Zero32 ELSE rtpTS0
    /\ attachLen' = [attachLen EXCEPT ![s] = Len(trackLog[s])]
    /\ UNCHANGED <<build, deviceSessions, readerPc, ops, frameCount, cur, lastPts,
                   lastSPS, lastPPS, framesSinceKF, frameChannel, chanClosed,
                   framesDropped, senderPc, sendCur, sendSnap, subDev, pcState,
                   pliCount, pliSeen, trackLog, auIdr, stateChanges, resumedAt,
                   acceptedAUs, cancelLen, pliGate, ptsConv, offerStatus, ctrl, annexb, locks, ctlRead, boot, dcs, touchVars>>

\* /offer with a request that is not a good offer: no device id, an unknown
\* device id, a body that is not JSON, or an SDP the peer connection refuses.
\* gin part_007:389-420 and 580-585, pkg handler.go:33-58 and 140-143,
\* legacy main.go:775-780 and 925-928 (legacy has no device id)
OfferIDs == {"", "d1", "d9"}
BadBodies == {"notjson", "badsdp"}
OfferAnswer(id, body) ==
    IF build = "legacy" THEN (IF body = "notjson" THEN 400 ELSE 500)
    ELSE IF id = "" THEN 400
    ELSE IF id \notin deviceSessions THEN 404
    ELSE IF body = "notjson" THEN 400
    ELSE 500

\* a handler that creates the peer connection and registers the client
\* before it looks at the request
CreatedAtEntry(status) == TRUE

\* the peer connection exists (and, gin and pkg, the client is registered)
\* when the handler returns with status: only the 500 of SetRemoteDescription
\* comes after NewPeerConnection
CreatedAt(status) == status = 500

HandleBadOffer(s, id, body) ==
    /\ processAlive
    /\ phase[s] = "idle"
    /\ LET status == OfferAnswer(id, body) IN
        /\ offerStatus' = [offerStatus EXCEPT ![s] = status]
        /\ IF CreatedAt(status)
           THEN /\ phase' = [phase EXCEPT ![s] = "refused"]
                /\ subDev' = IF build = "legacy" THEN subDev
                              ELSE [subDev EXCEPT ![s] = IF id \in Devices THEN id ELSE @]
                /\ clients' = IF build = "legacy" THEN clients ELSE clients \cup {s}
           ELSE UNCHANGED <<phase, subDev, clients>>
    /\ UNCHANGED <<build, deviceSessions, readerPc, ops, frameCount, cur, lastPts,
                   havePTS0, pts0, rtpTS0, lastSPS, lastPPS, needKeyframe,
                   framesSinceKF, frameChannel, chanClosed, framesDropped,
                   senderPc, sendCur, sendSnap, pcState, pliCount, pliSeen,
                   attachLen, resetWrites, trackLog, auIdr, enteredAt,
                   stateChanges, resumedAt,
                   acceptedAUs, cancelLen, pliGate, ptsConv, ctrl, annexb, locks, ctlRead, boot, dcs, touchVars>>

\* the RTCP reader of s gets a PictureLossIndication or a FullIntraRequest
\* (part_007:497-543, handler.go:115-137 with requestKeyframe, main.go:822-864)
RtcpPLI(s) ==
    /\ processAlive
    /\ phase[s] \in {"offering", "live"}
    /\ pcState[s] # "closed"
    /\ pliSeen < MaxPLI
    /\ pliSeen' = pliSeen + 1
    /\ needKeyframe' = [needKeyframe EXCEPT ![subDev[s]] = TRUE]
    /\ enteredAt' = Enter(subDev[s])
    /\ resetWrites' = [resetWrites EXCEPT ![subDev[s]] = @ + 1]
    /\ pliCount' = IF build = "pkg" THEN pliCount ELSE pliCount + 1
    /\ pliGate' = IF Streaming(subDev[s]) /\ phase[s] = "live"
                   THEN pliGate \cup {NextGated} ELSE pliGate
    /\ UNCHANGED <<build, deviceSessions, readerPc, ops, frameCount, cur, lastPts,
                   havePTS0, pts0, rtpTS0, lastSPS, lastPPS, framesSinceKF,
                   frameChannel, chanClosed, framesDropped, senderPc, sendCur,
                   sendSnap, clients, subDev, phase, pcState, attachLen,
                   trackLog, auIdr, stateChanges, resumedAt,
                   acceptedAUs, cancelLen, ptsConv, offerStatus, ctrl, annexb, locks, ctlRead, boot, dcs, touchVars>>

\* the peer connection of s reports a new state to OnConnectionStateChange
\* gin (part_007:567-577): Failed, Closed -> delete(clients, sessionID)
\* pkg (handler.go:106-112): Failed, Closed -> RemoveClient, pc.Close()
\* legacy (main.go:907-922): Failed, Closed, Disconnected -> the global track
\*   is cleared and the frame channel is emptied
OnConnectionStateChange(s, st) ==
    /\ processAlive
    /\ phase[s] = "live"
    /\ stateChanges < MaxStateChanges
    /\ pcState[s] # "closed"
    /\ st # pcState[s]
    /\ ~(pcState[s] = "failed" /\ st = "disconnected")
    /\ stateChanges' = stateChanges + 1
    /\ cancelLen' = [cancelLen EXCEPT ![s] = IF @ = -1 THEN Len(trackLog[s]) ELSE @]
    /\ pcState' = [pcState EXCEPT ![s] =
                     IF build = "pkg" /\ st = "failed" THEN "closed" ELSE st]
    /\ clients' =
         IF build = "legacy" THEN {}
         ELSE IF st \in {"failed", "closed"} THEN clients \ {s}
         ELSE clients
    /\ frameChannel' = IF build = "legacy" THEN clearFrameChannel(frameChannel) ELSE frameChannel
    /\ UNCHANGED <<build, deviceSessions, readerPc, ops, frameCount, cur, lastPts,
                   havePTS0, pts0, rtpTS0, lastSPS, lastPPS, needKeyframe,
                   framesSinceKF, chanClosed, framesDropped, senderPc, sendCur,
                   sendSnap, subDev, phase, pliCount, pliSeen, attachLen,
                   resetWrites, trackLog, auIdr, enteredAt, resumedAt,
                   acceptedAUs, pliGate, ptsConv, offerStatus, ctrl, annexb, locks, ctlRead, boot, dcs, touchVars>>

PCStates == {"disconnected", "failed", "closed"}

\* ------------------------------------------------------------ specification
Init == build \in Builds /\ InitVideo /\ InitTouch /\ ptsConv = NoConv
        /\ offerStatus = [s \in Subs |-> 0]
        /\ ctrl = [ok |-> 0, err |-> 0, run |-> 0]
        /\ dcs = NoTouches
        /\ boot = NoBoot
        /\ ctlRead = NoRead
        /\ locks = NoLocks
        /\ annexb = NoSplit

\* the video pipeline of device d1 with one subscriber
Next ==
    \/ ReadAU(AUKinds)
    \/ GateRead
    \/ GateStep
    \/ ReaderEOF
    \/ SenderRecv
    \/ SenderWrite
    \/ SenderExit
    \/ OfferBegin("s1", "d1")
    \/ OfferEnd("s1")
    \/ RtcpPLI("s1")

vars == <<build, videoVars, ptsConv, offerStatus, ctrl, annexb, locks, ctlRead, boot, dcs, touchVars>>

Spec == Init /\ [][Next]_vars

\* subscribers coming and going while the device sends keyframes only
LifeKinds == {"I"}

NextLife ==
    \/ ReadAU(LifeKinds)
    \/ GateRead
    \/ GateStep
    \/ ReaderEOF
    \/ SenderRecv
    \/ SenderWrite
    \/ SenderExit
    \/ \E s \in Subs : \E d \in Asks(s) : OfferBegin(s, d)
    \/ \E s \in Subs : OfferEnd(s)
    \/ \E s \in Subs, st \in PCStates : OnConnectionStateChange(s, st)

SpecLife == Init /\ [][NextLife]_vars

\* utils.go:284-317: one control message (a touch, RESET_VIDEO, the heartbeat
\* GET_CLIPBOARD) goes to the control socket of the device; the write either
\* completes or returns an error.  The callers log the error or drop it
\* (utils.go:324, utils.go:335, main.go:707, part_007:237).
writeFull(ok) ==
    /\ processAlive
    /\ readerPc # "exited"
    /\ ctrl.ok + ctrl.err < MaxCtrlWrites
    /\ ctrl' = IF ok THEN [ctrl EXCEPT !.ok = @ + 1, !.run = 0]
               ELSE [ctrl EXCEPT !.err = @ + 1, !.run = @ + 1]
    /\ UNCHANGED <<build, videoVars, ptsConv, offerStatus, annexb, locks, ctlRead, boot, dcs, touchVars>>

\* control writes while the device streams
NextCtrl ==
    \/ ReadAU(LifeKinds)
    \/ GateRead
    \/ GateStep
    \/ ReaderEOF
    \/ SenderRecv
    \/ SenderWrite
    \/ SenderExit
    \/ \E ok \in BOOLEAN : writeFull(ok)

SpecCtrl == Init /\ [][NextCtrl]_vars

\* the reader and the sender run whenever they can; the video socket may go
\* on for ever
SpecCtrlFair ==
    /\ SpecCtrl
    /\ WF_vars(GateRead)
    /\ WF_vars(GateStep)
    /\ WF_vars(SenderRecv)
    /\ WF_vars(SenderWrite)
    /\ WF_vars(SenderExit)

\* one subscriber attaches; the requests of the other one are refused
NextOffer ==
    \/ ReadAU(LifeKinds)
    \/ GateRead
    \/ GateStep
    \/ ReaderEOF
    \/ SenderRecv
    \/ SenderWrite
    \/ SenderExit
    \/ OfferBegin("s1", "d1")
    \/ OfferEnd("s1")
    \/ \E id \in OfferIDs, body \in BadBodies : HandleBadOffer("s2", id, body)

SpecOffer == Init /\ [][NextOffer]_vars

\* ------------------------------------------------------------ locks
\* Lock and RLock are both taken as exclusive; no task of the program takes
\* the same lock twice without releasing it.
L(l) == [op |-> "lock", lock |-> l, msg |-> ""]
U(l) == [op |-> "unlock", lock |-> l, msg |-> ""]
\* a critical section with no call inside
LU(l) == <<L(l), U(l)>>

\* the Write calls the loop of writeFull needs for one message: RESET_VIDEO is
\* one byte, the others may go out in up to MaxChunks pieces
MaxChunks == 2
Chunks(msg) == IF msg = "reset" THEN 1 ELSE MaxChunks

\* a writer that takes the device state lock inside the control mutex
writeFullUnderState(msg) ==
    <<L("controlMu"), L("StateMu")>>
    \o [i \in 1..Chunks(msg) |-> [op |-> "write", lock |-> "controlMu", msg |-> msg]]
    \o <<U("StateMu"), U("controlMu")>>

\* utils.go:284-317: controlMu.Lock, the Write loop, deferred Unlock
writeFullOps(msg) ==
    <<L("controlMu")>>
    \o [i \in 1..Chunks(msg) |-> [op |-> "write", lock |-> "controlMu", msg |-> msg]]
    \o <<U("controlMu")>>

\* main.go:551-709
touchLegacy ==
    LU("StateMu") \o LU("touchMu") \o LU("pointerMu") \o writeFullOps("touch")
    \o LU("pointerMu")
\* part_007:76-237
touchGin ==
    LU("devicesMu") \o LU("touchMu") \o LU("pointerMu") \o writeFullOps("touch")
    \o LU("pointerMu")
\* touch.go:82-158: touchMu is held until the handler returns
touchPkg == <<L("touchMu")>> \o writeFullOps("touch") \o <<U("touchMu")>>

\* the RTCP reader on a PLI: main.go:837-845, part_007:512-521, handler.go:170-183
rtcpTask ==
    LU("StateMu") \o writeFullOps("reset")
    \o (IF build = "gin" THEN LU("statsMu") ELSE <<>>)

\* the stream reader on the frame that makes framesSinceKF a multiple of 30,
\* no IDR in it: main.go:156-326
readerLegacy ==
    LU("StateMu") \o LU("StateMu") \o writeFullOps("reset") \o LU("StateMu")
\* processor.go:420-586: the re-ask is inside the section of lines 533-544
readerGin ==
    LU("StateMu") \o LU("StateMu") \o LU("StateMu")
    \o <<L("StateMu")>> \o writeFullOps("reset") \o <<U("StateMu")>>
    \o LU("statsMu")
\* processor.go:76-143 with part_006:169-211
readerPkg ==
    LU("StateMu") \o LU("StateMu") \o LU("StateMu") \o LU("StateMu")
    \o writeFullOps("reset")

\* utils.go:190-208, 331-340
healthTask == writeFullOps("clip")

\* /offer: main.go:940-960, part_007:402-612, handler.go:44-162
offerTask ==
    (IF build = "legacy" THEN <<>> ELSE LU("devicesMu") \o LU("clientsMu"))
    \o LU("StateMu") \o writeFullOps("reset")

Program(t) ==
    CASE t = "touch" -> (CASE build = "legacy" -> touchLegacy
                           [] build = "gin" -> touchGin
                           [] OTHER -> touchPkg)
      [] t = "rtcp" -> rtcpTask
      [] t = "reader" -> (CASE build = "legacy" -> readerLegacy
                            [] build = "gin" -> readerGin
                            [] OTHER -> readerPkg)
      [] t = "health" -> healthTask
      [] OTHER -> offerTask

Done(t) == locks.pc[t] > Len(Program(t))
NextOp(t) == Program(t)[locks.pc[t]]

\* a mutex that lets everybody in
FreeForAll(l) == TRUE
\* sync.Mutex: Lock returns when nobody holds the mutex
Free(l) == locks.held[l] = None

\* task t runs its next statement
TaskStep(t) ==
    /\ ~Done(t)
    /\ LET o == NextOp(t) IN
       CASE o.op = "lock" ->
               /\ Free(o.lock)
               /\ locks' = [locks EXCEPT !.pc[t] = @ + 1, !.held[o.lock] = t]
         [] o.op = "unlock" ->
               locks' = [locks EXCEPT !.pc[t] = @ + 1, !.held[o.lock] = None]
         [] OTHER ->
               locks' = [locks EXCEPT !.pc[t] = @ + 1,
                                      !.sock = Append(@, [task |-> t, msg |-> o.msg])]
    /\ UNCHANGED <<build, videoVars, ptsConv, offerStatus, ctrl, annexb, ctlRead, boot, dcs, touchVars>>

NextLocks == \E t \in Tasks : TaskStep(t)

SpecLocks == Init /\ [][NextLocks]_vars

\* the deferred controlMu.Unlock of the writeFull task t is in
AfterWrite(t) ==
    CHOOSE j \in (locks.pc[t] + 1)..Len(Program(t)) :
        /\ Program(t)[j] = U("controlMu")
        /\ \A i \in (locks.pc[t] + 1)..(j - 1) : Program(t)[i] # U("controlMu")

\* utils.go:299-305: a Write of writeFull returns an error (its deadline, a
\* broken connection); the chunks written before stay on the socket, writeFull
\* returns the error and the callers drop it (main.go:707, utils.go:321-329)
WriteFails(t) ==
    /\ ~Done(t)
    /\ NextOp(t).op = "write"
    /\ locks' = [locks EXCEPT !.pc[t] = AfterWrite(t)]
    /\ UNCHANGED <<build, videoVars, ptsConv, offerStatus, ctrl, annexb, ctlRead, boot, dcs, touchVars>>

NextWrite == \E t \in Tasks : TaskStep(t) \/ WriteFails(t)

SpecWrite == Init /\ [][NextWrite]_vars

\* ------------------------------------------------------------ device messages
\* The bytes on the control socket from the device, run-length encoded: an item
\* [n |-> k, v |-> x] is k bytes of value x.
FillByte == 65
MaxMsgs == 2
ClipLens == {0, 3, controlReadBufMax - 1, controlReadBufMax,
             controlReadBufMax + 1, controlReadBufMax + 7}

Byte(x) == [n |-> 1, v |-> x]

\* binary.BigEndian bytes of a length below 2^24
U32BE(n) == <<Byte(0), Byte(n \div 65536), Byte((n \div 256) % 256), Byte(n % 256)>>

\* a CLIPBOARD message as the device writes it: type, length, text
ClipboardMsg(n) ==
    <<Byte(deviceMsgTypeClipboard)>> \o U32BE(n)
        \o (IF n = 0 THEN <<>> ELSE <<[n |-> n, v |-> FillByte]>>)

RECURSIVE StreamOf(_)
StreamOf(lens) ==
    IF lens = <<>> THEN <<>> ELSE ClipboardMsg(Head(lens)) \o StreamOf(Tail(lens))

\* the stream without its first byte
DropByte(st) ==
    IF Head(st).n = 1 THEN Tail(st)
    ELSE <<[Head(st) EXCEPT !.n = @ - 1]>> \o Tail(st)

\* io.ReadFull / io.CopyN of k bytes: the bytes taken (kept one by one only for
\* the short reads), what is left, and whether the stream ended first
RECURSIVE TakeBytes(_, _, _)
TakeBytes(st, k, got) ==
    IF k = 0 THEN [ok |-> TRUE, got |-> got, rest |-> st]
    ELSE IF st = <<>> THEN [ok |-> FALSE, got |-> got, rest |-> st]
    ELSE IF k <= 4 THEN TakeBytes(DropByte(st), k - 1, Append(got, Head(st).v))
    ELSE IF Head(st).n > k
         THEN [ok |-> TRUE, got |-> got,
               rest |-> <<[Head(st) EXCEPT !.n = @ - k]>> \o Tail(st)]
    ELSE TakeBytes(Tail(st), k - Head(st).n, got)

\* binary.BigEndian.Uint32
Uint32BE(b) == ((b[1] * 256 + b[2]) * 256 + b[3]) * 256 + b[4]

\* a limit that leaves out the length equal to it
TooLargeFrom(n) == n >= controlReadBufMax
\* utils.go:253: n > controlReadBufMax
TooLarge(n) == n > controlReadBufMax

\* the device writes some CLIPBOARD messages and closes the socket
DeviceSends ==
    /\ ctlRead.pc = "idle"
    /\ \E k \in 1..MaxMsgs : \E lens \in [1..k -> ClipLens] :
          ctlRead' = [stream |-> StreamOf(lens), sent |-> lens, seen |-> <<>>,
                      pc |-> "run"]
    /\ UNCHANGED <<build, videoVars, ptsConv, offerStatus, ctrl, annexb, locks, boot, dcs, touchVars>>

\* utils.go:229-281: one iteration of the loop of readDeviceMessages
readDeviceMessages ==
    /\ ctlRead.pc = "run"
    /\ LET t == TakeBytes(ctlRead.stream, 1, <<>>) IN
       IF ~t.ok THEN ctlRead' = [ctlRead EXCEPT !.pc = "ended"]
       ELSE IF t.got[1] # deviceMsgTypeClipboard
       THEN ctlRead' = [ctlRead EXCEPT !.stream = t.rest,
                           !.seen = Append(@, [typ |-> t.got[1], len |-> 0, kept |-> FALSE])]
       ELSE LET l == TakeBytes(t.rest, 4, <<>>) IN
            IF ~l.ok THEN ctlRead' = [ctlRead EXCEPT !.stream = l.rest, !.pc = "ended"]
            ELSE LET n == Uint32BE(l.got)
                     \* io.CopyN(io.Discard, r, n) or io.ReadFull(r, buf[:n])
                     d == TakeBytes(l.rest, n, <<>>)
                 IN IF ~d.ok
                    THEN ctlRead' = [ctlRead EXCEPT !.stream = d.rest, !.pc = "ended"]
                    ELSE IF TooLarge(n)
                    THEN ctlRead' = [ctlRead EXCEPT !.stream = d.rest,
                            !.seen = Append(@, [typ |-> t.got[1], len |-> n, kept |-> FALSE])]
                    ELSE ctlRead' = [ctlRead EXCEPT !.stream = d.rest,
                            !.seen = Append(@, [typ |-> t.got[1], len |-> n, kept |-> TRUE])]
    /\ UNCHANGED <<build, videoVars, ptsConv, offerStatus, ctrl, annexb, locks, boot, dcs, touchVars>>

NextCtlRead == DeviceSends \/ readDeviceMessages

SpecCtlRead == Init /\ [][NextCtlRead]_vars

\* ------------------------------------------------------------ device start-up
\* runAndroidStreaming of the gin build, one task per device of one process.
MaxReads == 3

\* processor.go:311-315: StartScrcpyBoot; on an error the task returns
StartScrcpyBoot(d) ==
    /\ boot.up /\ boot.phase[d] = "boot"
    /\ \E ok \in BOOLEAN :
          boot' = [boot EXCEPT !.phase[d] = IF ok THEN "name" ELSE "ended"]
    /\ UNCHANGED <<build, videoVars, ptsConv, offerStatus, ctrl, annexb, locks, ctlRead, dcs, touchVars>>

\* log.Fatal: os.Exit(1), the process with every device task and the HTTP
\* service is gone
Fatal == [up |-> FALSE, phase |-> [e \in Devices |-> "ended"], reads |-> boot.reads]

\* processor.go:364-376: io.ReadFull of the 64-byte name, then of the 12-byte
\* header; log.Fatal on an error
ReadPreamble(d) ==
    /\ boot.up /\ boot.phase[d] \in {"name", "header"}
    /\ \E ok \in BOOLEAN :
          boot' = IF ok
                  THEN [boot EXCEPT !.phase[d] = IF @ = "name" THEN "header" ELSE "stream"]
                  ELSE Fatal
    /\ UNCHANGED <<build, videoVars, ptsConv, offerStatus, ctrl, annexb, locks, ctlRead, dcs, touchVars>>

\* processor.go:404-436 and 335-343: one frame read; on an error the loop is
\* left and the deferred teardown of this device runs
ReadFrameOf(d) ==
    /\ boot.up /\ boot.phase[d] = "stream"
    /\ \/ /\ boot.reads[d] < MaxReads
          /\ boot' = [boot EXCEPT !.reads[d] = @ + 1]
       \/ boot' = [boot EXCEPT !.phase[d] = "ended"]
    /\ UNCHANGED <<build, videoVars, ptsConv, offerStatus, ctrl, annexb, locks, ctlRead, dcs, touchVars>>

NextBoot ==
    \E d \in Devices : StartScrcpyBoot(d) \/ ReadPreamble(d) \/ ReadFrameOf(d)

\* the process of the gin build with both devices about to start
InitBoot == Init /\ build = "gin"

SpecBoot == InitBoot /\ [][NextBoot]_vars

\* ------------------------------------------------------------ concurrent touch
\* One OnMessage callback per data channel runs at a time; the callbacks of
\* different data channels run concurrently. A message is told by its action
\* and pointer id; its buttons are left to the sequential touch actions.
Chans == {"dc1", "dc2"}
MaxTouches == 4
\* the pointer each browser uses
RemoteOf(c) == IF c = "dc1" THEN 1 ELSE 2

\* touch.go:82-158 defers touchMu.Unlock; main.go:613-639 and part_007:143-169
\* unlock before the message is built and written
HoldsTouchMu(b) == b = "pkg"

\* the pointers the browser of each data channel has down after its event
Own(c, typ, r) ==
    CASE typ = "down" -> dcs.own \cup {<<c, r>>}
      [] typ \in {"up", "cancel"} -> dcs.own \ {<<c, r>>}
      [] OTHER -> dcs.own

\* the slot part of handleTouchEvent for an event of pointer r from data
\* channel c, under touchMu
TouchMap(c, r) ==
    /\ dcs.pc[c] = "idle"
    /\ dcs.mu = None
    /\ dcs.n < MaxTouches
    /\ \E typ \in TouchTypes :
          LET o == TouchOutcome(typ, r)
              m == [action |-> typ, pointerID |-> o.s]
              d == [dcs EXCEPT !.n = @ + 1, !.own = Own(c, typ, r),
                               !.last = [c |-> c, typ |-> typ, r |-> r]]
          IN /\ touchLocalByRemote' = o.t.byRemote
             /\ touchRemoteByLocal' = o.t.byLocal
             /\ touchSlotUsed' = o.t.used
             /\ dcs' = IF o.res = "sent"
                       THEN [d EXCEPT !.pc[c] = "write", !.msg[c] = m,
                                  !.mapped = Append(@, m),
                                  !.mu = IF HoldsTouchMu(build) THEN c ELSE None]
                       ELSE d
    /\ UNCHANGED <<build, videoVars, ptsConv, offerStatus, ctrl, annexb, locks, ctlRead,
                   boot, touchResult, pointerButtons, touchEv, touchMsg>>

\* writeFull of the message, under controlMu; then the handler returns
TouchWrite(c) ==
    /\ dcs.pc[c] = "write"
    /\ dcs' = [dcs EXCEPT !.pc[c] = "idle", !.wire = Append(@, dcs.msg[c]),
                          !.mu = IF @ = c THEN None ELSE @]
    /\ UNCHANGED <<build, videoVars, ptsConv, offerStatus, ctrl, annexb, locks, ctlRead,
                   boot, touchVars>>

NextDcs == \E c \in Chans : TouchMap(c, RemoteOf(c)) \/ TouchWrite(c)

SpecDcs == Init /\ [][NextDcs]_vars

\* subscribers come and go, each with one data channel; the pointer ids are
\* the browser's, so two browsers may use the same ones
SubOf(c) == IF c = "dc1" THEN "s1" ELSE "s2"
SharedRemotes == {1, 2}
\* part_007:546-564, main.go:866-905: the data channel of a connected subscriber
Open(c) == phase[SubOf(c)] = "live" /\ pcState[SubOf(c)] \notin PCStates

\* dc.OnMessage of the data channel c with an event of pointer r
OnMessage(c, r) == Open(c) /\ TouchMap(c, r)

NextSubs ==
    \/ \E s \in Subs : OfferBegin(s, "d1")
    \/ \E s \in Subs : OfferEnd(s)
    \/ \E s \in Subs, st \in PCStates : OnConnectionStateChange(s, st)
    \/ \E c \in Chans, r \in SharedRemotes : OnMessage(c, r)
    \/ \E c \in Chans : TouchWrite(c)

SpecSubs == Init /\ [][NextSubs]_vars

\* ------------------------------------------------------------ Annex-B
\* b[i] of the code, indices from 0
At(b, i) == b[i + 1]
\* a slice that loses its last byte
CutShort(b, from, to) == SubSeq(b, from + 1, to - 1)
\* b[from:to] of the code
Cut(b, from, to) == SubSeq(b, from + 1, to)

\* main.go:1066-1078, part_000:31-43: the first 00 00 01 or 00 00 00 01 at or
\* after from, as (start, end), else (-1, -1)
RECURSIVE findStartCode(_, _)
findStartCode(b, from) ==
    IF from + 3 > Len(b) THEN <<-1, -1>>
    ELSE IF At(b, from) = 0 /\ At(b, from + 1) = 0 /\ At(b, from + 2) = 1
    THEN <<from, from + 3>>
    ELSE IF from + 4 <= Len(b) /\ At(b, from) = 0 /\ At(b, from + 1) = 0
            /\ At(b, from + 2) = 0 /\ At(b, from + 3) = 1
    THEN <<from, from + 4>>
    ELSE findStartCode(b, from + 1)

\* main.go:1039-1062, part_000:5-28: the loop of splitAnnexBNALUs from offset i
RECURSIVE splitFrom(_, _, _)
splitFrom(b, i, nalus) ==
    LET sc == findStartCode(b, i) IN
    IF sc[1] < 0 THEN nalus
    ELSE LET next == findStartCode(b, sc[2]) IN
         IF next[1] < 0
         THEN IF Len(b) > sc[2] THEN Append(nalus, Cut(b, sc[2], Len(b))) ELSE nalus
         ELSE splitFrom(b, next[1],
                        IF next[1] > sc[2] THEN Append(nalus, Cut(b, sc[2], next[1]))
                        ELSE nalus)

splitAnnexBNALUs(b) == splitFrom(b, 0, <<>>)

\* part_005:17-48: the loop of SplitAnnexBNALUs at offset i, start = -1 until
\* the first start code; a unit between two start codes is kept even if empty
RECURSIVE SplitFrom(_, _, _, _)
SplitFrom(data, i, start, nalus) ==
    IF ~(i + 3 < Len(data))
    THEN IF start >= 0 /\ start < Len(data)
         THEN Append(nalus, Cut(data, start, Len(data))) ELSE nalus
    ELSE IF At(data, i) = 0 /\ At(data, i + 1) = 0 /\ At(data, i + 2) = 1
    THEN SplitFrom(data, i + 3, i + 3,
                   IF start >= 0 THEN Append(nalus, Cut(data, start, i)) ELSE nalus)
    ELSE IF At(data, i) = 0 /\ At(data, i + 1) = 0 /\ At(data, i + 2) = 0
            /\ At(data, i + 3) = 1
    THEN SplitFrom(data, i + 4, i + 4,
                   IF start >= 0 THEN Append(nalus, Cut(data, start, i)) ELSE nalus)
    ELSE SplitFrom(data, i + 1, start, nalus)

SplitAnnexBNALUs(data) == SplitFrom(data, 0, -1, <<>>)

\* the splitter of the running build
Split(b) == IF build = "pkg" THEN SplitAnnexBNALUs(b) ELSE splitAnnexBNALUs(b)

\* byte strings of up to MaxNaluLen bytes over 0, 1 and one other byte, lists
\* of up to MaxNalus of them, each behind a 3-byte or a 4-byte start code
MaxNaluLen == 3
MaxNalus == 2
ByteValues == {0, 1, 2}
NaluBytes == UNION {[1..n -> ByteValues] : n \in 1..MaxNaluLen}
StartCodes == {<<0, 0, 1>>, <<0, 0, 0, 1>>}
NaluLists == UNION {[1..n -> NaluBytes] : n \in 1..MaxNalus}

RECURSIVE Concat(_, _)
Concat(nalus, codes) ==
    IF nalus = <<>> THEN <<>>
    ELSE Head(codes) \o Head(nalus) \o Concat(Tail(nalus), Tail(codes))

\* one frame body goes through the splitter
SplitFrame ==
    /\ ~annexb.done
    /\ \E nalus \in NaluLists :
         \E codes \in [1..Len(nalus) -> StartCodes] :
            annexb' = [nalus |-> nalus, buf |-> Concat(nalus, codes),
                       out |-> Split(Concat(nalus, codes)), done |-> TRUE]
    /\ UNCHANGED <<build, videoVars, ptsConv, offerStatus, ctrl, locks, ctlRead, boot, dcs, touchVars>>

SpecSplit == Init /\ [][SplitFrame]_vars

\* the timestamp of one frame, as the read loop computes it
\* (main.go:153-165, processor.go:417-428, part_006:170-181), for presentation
\* times all over uint64
PtsBases == {U64(0), U64(PtsOf(1))}
PtsValues == {Pow2(k) : k \in 20..(PtsBits - 1)} \cup {U64(PtsOf(i)) : i \in 1..30}
InitPTSMapping ==
    /\ \E base \in PtsBases, pts \in PtsValues :
         /\ LessEq64(base, pts)
         /\ ptsConv' = [pts |-> pts, base |-> base,
                        ts |-> Add32(rtpTS0, TSFromPTS(pts, base)), done |-> TRUE]
    /\ UNCHANGED <<build, videoVars, offerStatus, ctrl, annexb, locks, ctlRead, boot, dcs, touchVars>>

SpecPTS == Init /\ [][InitPTSMapping]_vars

\* a picture loss report while the device streams: every frame is a keyframe,
\* the first one with its parameter sets
\* the reader and the sender alone; a frame may bring an SPS without a PPS
SPSKinds == {"S", "C", "CI", "P"}

NextSPS ==
    \/ ReadAU(SPSKinds)
    \/ GateRead
    \/ GateStep
    \/ SenderRecv
    \/ SenderWrite

SpecSPS == Init /\ [][NextSPS]_vars

KFKinds == {"CI", "I"}

NextKF ==
    \/ ReadAU(KFKinds)
    \/ GateRead
    \/ GateStep
    \/ SenderRecv
    \/ SenderWrite
    \/ OfferBegin("s1", "d1")
    \/ OfferEnd("s1")
    \/ RtcpPLI("s1")

SpecKF == Init /\ [][NextKF]_vars

\* touch events on the slot mapper
NextTouch == \E typ \in TouchTypes, remote \in Remotes : handleTouchEvent(typ, remote)

SpecTouch == Init /\ [][NextTouch]_vars

\* pointer events of every kind: two pointer ids; a position left of, inside
\* or right of a 4 x 6 screen, or one with no screen size in the event; with
\* and without a video size known to the program
PointerTypes == {"touch", "mouse", "pen"}
Geometries == {<<-1, 4, 6>>, <<2, 4, 6>>, <<9, 4, 6>>, <<9, 0, 0>>}
VideoSizes == {<<0, 0>>, <<4, 6>>}
PointerEvents ==
    {[typ |-> typ, id |-> id, x |-> g[1], y |-> g[1], screenW |-> g[2],
      screenH |-> g[3], buttons |-> b, pointerType |-> pt] :
        typ \in TouchTypes, id \in {1, 2}, g \in Geometries,
        b \in {NoButtons, {1}}, pt \in PointerTypes}

\* a pointer that is down does not go down again
PointerBrowser(ev) == ev.typ = "down" => touchLocalByRemote[ev.id] = NoSlot

NextPointer ==
    \E ev \in PointerEvents, video \in VideoSizes :
        PointerBrowser(ev) /\ HandleTouchEvent(ev, video[1], video[2])

SpecPointer == Init /\ [][NextPointer]_vars

\* ------------------------------------------------------------ properties
\* the payloads that are queued, with the sender, or already written
InFlight == [i \in 1..Len(frameChannel) |-> frameChannel[i]]
            \o (IF senderPc = "write" THEN <<sendCur>> ELSE <<>>)

\* the access unit of frame i has been accepted for delivery or written
Delivered(i) ==
    \/ \E n \in 1..Len(InFlight) : InFlight[n].IsAccessUnit /\ InFlight[n].au = i
    \/ \E s \in Subs : \E n \in 1..Len(trackLog[s]) :
          trackLog[s][n].isAU /\ trackLog[s][n].au = i
    \/ i \in acceptedAUs

WrittenTo(s, i) ==
    \E n \in 1..Len(trackLog[s]) : trackLog[s][n].isAU /\ trackLog[s][n].au = i

\* no frame from k to i holds an IDR
NoIDRFrom(k, i) == \A m \in k..i : ~auIdr[m]

\* C1: when the gate of a device enters Needs-Keyframe at frame k (attach,
\* PLI/FIR or new SPS), no access unit from k up to the first frame >= k that
\* holds an IDR is queued or written to any subscriber.
C1_GateHoldsUntilIDR ==
    \A k \in enteredAt : \A i \in k..Len(auIdr) :
        NoIDRFrom(k, i) => ~Delivered(i)

\* the gate was entered at a frame without IDR, and the IDR frame after it has
\* been written to a subscriber
C1_Witness ==
    \E k \in enteredAt : \E j \in (k + 1)..Len(auIdr) :
        /\ NoIDRFrom(k, j - 1)
        /\ auIdr[j]
        /\ \E s \in Subs : WrittenTo(s, j)

\* what was written to the track of s after the 200 answer of its /offer
AfterAttach(s) == SubSeq(trackLog[s], attachLen[s] + 1, Len(trackLog[s]))

\* position of the first access unit in a log, 0 if there is none
RECURSIVE FirstAU(_, _)
FirstAU(log, n) ==
    IF n > Len(log) THEN 0
    ELSE IF log[n].isAU THEN n ELSE FirstAU(log, n + 1)

\* C2: the first access unit written to the track of a subscriber after it
\* attached holds an IDR (no access unit without IDR comes ahead of it).
C2_FirstAUIsIDR ==
    \A s \in Subs :
        phase[s] = "live" =>
            LET log == AfterAttach(s)
                f == FirstAU(log, 1)
            IN f > 0 => log[f].idr

\* C3: when the gate went back to Streaming on a frame, the access unit of that
\* frame entered the queue.
C3_ResumeDelivers ==
    readerPc # "ops" => resumedAt \subseteq acceptedAUs

MarkersOf(pkts) == {j \in 1..Len(pkts) : pkts[j].marker}

\* C4: every written access unit has exactly one packet with Marker=true, its
\* last one, and no packet of an SPS/PPS emission outside an access unit has
\* the Marker set.
C4_MarkerPolicy ==
    \A s \in Subs : \A n \in 1..Len(trackLog[s]) :
        LET e == trackLog[s][n] IN
        IF e.isAU THEN MarkersOf(e.pkts) = {Len(e.pkts)}
        ELSE MarkersOf(e.pkts) = {}

\* the packets of a track in the order written, each with its frame
PacketsOfLog(log) ==
    Flatten([n \in 1..Len(log) |->
               [j \in 1..Len(log[n].pkts) |-> [ts |-> log[n].pkts[j].ts, au |-> log[n].au]]])

\* C5: on one track the timestamps of successive packets never decrease, and
\* two packets have the same timestamp only when they belong to the same frame.
C5_TimestampsMonotonic ==
    \A s \in Subs :
        LET ps == PacketsOfLog(trackLog[s]) IN
        \A a, b \in 1..Len(ps) :
            a < b =>
                /\ ~Less32(ps[b].ts, ps[a].ts)
                /\ (ps[a].ts = ps[b].ts => ps[a].au = ps[b].au)

\* C6: a push on a queue that holds 3 payloads leaves the 3 payloads as they
\* are, discards the pushed payload and adds exactly 1 to framesDropped.
C6_FullQueueDropsNewest ==
    Len(frameChannel) = rtpPayloadChannelSize =>
        \A isAU \in BOOLEAN :
            Push(frameChannel, framesDropped,
                 RtpPayload(cur.nalus, cur.ts, isAU, frameCount))
              = [ch |-> frameChannel, dropped |-> framesDropped + 1]

\* the reader and the sender run whenever they can; an /offer that has begun
\* runs to its answer
SpecLifeFair ==
    /\ SpecLife
    /\ WF_vars(GateRead)
    /\ WF_vars(GateStep)
    /\ WF_vars(SenderRecv)
    /\ WF_vars(SenderWrite)
    /\ WF_vars(SenderExit)
    /\ WF_vars(\E s \in Subs : OfferEnd(s))

\* the subscribers that asked for device d and got as far as the registry
SubscribersOf(d) == {s \in Subs : subDev[s] = d /\ phase[s] # "idle"}

\* everything of device d1 is gone
TornDown ==
    \/ ~processAlive
    \/ /\ readerPc = "exited"
       /\ chanClosed
       /\ senderPc = "exited"
       /\ "d1" \notin deviceSessions
       /\ \A s \in SubscribersOf("d1") : pcState[s] = "closed" /\ s \notin clients

\* C7: after the video socket of a device ends, eventually the reader has
\* exited, the queue is closed, the sender has exited, every subscriber of the
\* device is Closed and the registry holds neither the device nor them.
C7_EOFTearsDown == (readerPc = "exited") ~> TornDown

\* C8: a subscriber whose peer connection entered Failed, Closed or
\* Disconnected is out of the registry and nothing is written to its track
\* from then on.
C8_CancelRemoves ==
    \A s \in Subs :
        pcState[s] \in PCStates =>
            /\ s \notin clients
            /\ Len(trackLog[s]) = cancelLen[s]

\* C9: the cancellation of one subscriber leaves every other subscriber in the
\* registry with its track as it is, and leaves the reader, the queue and the
\* sender as they are.
C9_CancelIsLocal ==
    [][\A s \in Subs :
          (\E st \in PCStates : OnConnectionStateChange(s, st)) =>
              /\ clients' \ {s} = clients \ {s}
              /\ frameChannel' = frameChannel
              /\ trackLog' = trackLog
              /\ UNCHANGED <<readerPc, ops, cur, needKeyframe, chanClosed,
                             senderPc, sendCur, sendSnap>>]_vars

MappedRemotes == {r \in Remotes : touchLocalByRemote[r] # NoSlot}

\* C10: no local slot is assigned to two distinct remote pointer ids at the
\* same time, and never more than 10 slots are in use.
C10_SlotsInjective ==
    /\ \A r1, r2 \in MappedRemotes : r1 # r2 => touchLocalByRemote[r1] # touchLocalByRemote[r2]
    /\ \A r \in MappedRemotes :
          /\ touchLocalByRemote[r] \in Slots
          /\ touchSlotUsed[touchLocalByRemote[r]]
          /\ touchRemoteByLocal[touchLocalByRemote[r]] = r
    /\ Cardinality(MappedRemotes) <= maxPointers
    /\ Cardinality({i \in Slots : touchSlotUsed[i]}) <= maxPointers

\* ten fingers are down and the down of one more was dropped
C10_Witness ==
    /\ Cardinality(MappedRemotes) = maxPointers
    /\ touchResult = "dropped"
    /\ \E r \in Remotes : r \notin MappedRemotes

\* C11: a move, up or cancel of a touch pointer whose remote id has no slot
\* is dropped: the handler writes no control message and leaves the slot
\* maps and the button map as they were.
C11_UnmappedDropped ==
    [][\A typ \in {"move", "up", "cancel"}, remote \in Remotes :
         (handleTouchEvent(typ, remote) /\ touchLocalByRemote[remote] = NoSlot)
            => /\ touchResult' = "dropped"
               /\ touchMsg' = NoMsg
               /\ UNCHANGED <<touchLocalByRemote, touchRemoteByLocal,
                              touchSlotUsed, pointerButtons>>]_vars

\* C12: whenever the RTCP reader of a subscriber gets a PLI or a FIR, the
\* device's needKeyframe flag is set, the PLI count grows by one and one
\* RESET_VIDEO is handed to the control writer of that device.
C12_PLIAccounting ==
    [][\A s \in Subs :
         RtcpPLI(s) => /\ needKeyframe'[subDev[s]]
                       /\ pliCount' = pliCount + 1
                       /\ resetWrites'[subDev[s]] = resetWrites[subDev[s]] + 1]_vars

\* position in a log of the first access unit with an IDR that belongs to
\* frame k or a later one, 0 if there is none
RECURSIVE FirstIDRFrom(_, _, _)
FirstIDRFrom(log, k, n) ==
    IF n > Len(log) THEN 0
    ELSE IF log[n].isAU /\ log[n].idr /\ log[n].au >= k THEN n
    ELSE FirstIDRFrom(log, k, n + 1)

\* entry e is a non-AU payload with a NAL unit of type typ at timestamp ts
ParamSetAt(e, typ, ts) ==
    /\ ~e.isAU
    /\ \E q \in 1..Len(e.pkts) : e.pkts[q].typ = typ /\ e.pkts[q].ts = ts

\* C13: after a PLI that came while the device was streaming with SPS and PPS
\* cached, the next access unit with an IDR written to a subscriber has, ahead
\* of it on the track, the SPS and the PPS as non-AU packets with the RTP
\* timestamp of that access unit.
C13_ParamSetsBeforeIDR ==
    \A s \in Subs : \A k \in pliGate :
        LET log == trackLog[s]
            n == FirstIDRFrom(log, k, 1)
        IN  n > 0 =>
              \A typ \in {7, 8} :
                 \E j \in 1..(n - 1) : ParamSetAt(log[j], typ, log[n].pkts[1].ts)

\* C14: a down of a touch pointer is written with pointerId = slot + 1, where
\* slot is the one the remote id already has, else the lowest free one; a
\* repeated down takes no further slot; with all 10 slots held by other ids
\* the down is dropped and nothing is written.
C14_DownAllocates ==
    [][\A remote \in Remotes :
         handleTouchEvent("down", remote) =>
            IF touchLocalByRemote[remote] # NoSlot
            THEN /\ touchResult' = "sent"
                 /\ touchMsg'.pointerId = touchLocalByRemote[remote] + 1
                 /\ touchSlotUsed' = touchSlotUsed
            ELSE IF FreeSlots(TouchState) # {}
            THEN /\ touchResult' = "sent"
                 /\ touchMsg'.pointerId = LowestFree(TouchState) + 1
                 /\ touchLocalByRemote'[remote] = LowestFree(TouchState)
            ELSE /\ touchResult' = "dropped"
                 /\ touchMsg' = NoMsg
                 /\ touchSlotUsed' = touchSlotUsed]_vars

\* C15: an up or a cancel of a touch pointer that has a slot is written with
\* that slot's pointerId (slot + 1), frees that slot and removes that mapping,
\* and leaves every other slot and mapping alone.
C15_UpFreesOwnSlot ==
    [][\A typ \in {"up", "cancel"}, remote \in Remotes :
         (handleTouchEvent(typ, remote) /\ touchLocalByRemote[remote] # NoSlot) =>
            LET slot == touchLocalByRemote[remote] IN
            /\ touchResult' = "sent"
            /\ touchMsg'.pointerId = slot + 1
            /\ touchLocalByRemote' = [touchLocalByRemote EXCEPT ![remote] = NoSlot]
            /\ touchSlotUsed' = [touchSlotUsed EXCEPT ![slot] = FALSE]
            /\ touchRemoteByLocal' = [touchRemoteByLocal EXCEPT ![slot] = 0]]_vars

\* C16: a message written for a touch event has a pointerId in 1..10; a mouse
\* or pen event leaves the slot mapper alone and, if written, has pointerId 0;
\* a mouse or pen move with no button pressed is not written.
C16_PointerIdByType ==
    [][/\ (touchEv'.pointerType = "touch" /\ touchResult' = "sent")
            => touchMsg'.pointerId \in 1..maxPointers
       /\ touchEv'.pointerType \in {"mouse", "pen"}
            => /\ UNCHANGED <<touchLocalByRemote, touchRemoteByLocal, touchSlotUsed>>
               /\ touchResult' = "sent" => touchMsg'.pointerId = 0
               /\ (touchEv'.typ = "move" /\ touchEv'.buttons = NoButtons)
                    => (touchResult' = "dropped" /\ touchMsg' = NoMsg)]_vars

\* C20: in every touch message written, x is in [0, screenW-1] and y is in
\* [0, screenH-1] for the screenW and screenH of that message; a message for
\* a touch pointer has buttons = 0 and actionButton = 0.
C20_CoordinatesClamped ==
    touchResult = "sent" =>
        /\ 0 <= touchMsg.x /\ touchMsg.x <= touchMsg.screenW - 1
        /\ 0 <= touchMsg.y /\ touchMsg.y <= touchMsg.screenH - 1
        /\ touchEv.pointerType = "touch"
             => (touchMsg.buttons = NoButtons /\ touchMsg.actionButton = NoButtons)

\* C17: for every pts >= PTS0 in the 64-bit range the RTP timestamp of the
\* frame is floor((pts - PTS0) * 90000 / 1000000) reduced modulo 2^32.
C17_TimestampFormula ==
    ptsConv.done => ptsConv.ts = ExactTS(ptsConv.pts, ptsConv.base)

\* C18: an /offer request answered with 400 creates no state: no peer
\* connection, no new subscriber in the registry, and the keyframe gate of
\* every device is as it was.
C18_BadOfferNoState ==
    [][\A s \in Subs :
         (/\ \E id \in OfferIDs, body \in BadBodies : HandleBadOffer(s, id, body)
          /\ offerStatus'[s] = 400)
            => UNCHANGED <<phase, pcState, clients, subDev, needKeyframe,
                           framesSinceKF, resetWrites>>]_vars

\* a request of s2 was answered with 400 while s1 is attached to the device
C18_Witness ==
    /\ offerStatus["s2"] = 400
    /\ phase["s1"] = "live"
    /\ phase["s2"] = "idle"

\* C19: a control write that fails after one that did not tears nothing down
\* (the reader, the device entry, the frame channel and the registry stay as
\* they are), and a run of control write failures leads to the teardown of
\* the device.
C19_WriteFailures ==
    /\ [][(writeFull(FALSE) /\ ctrl.run = 0)
            => UNCHANGED <<readerPc, deviceSessions, chanClosed, senderPc, clients>>]_vars
    /\ (ctrl.run = MaxCtrlWrites) ~> (readerPc = "exited")

\* the buttons an event reports: a touch event reports none (main.go:646-649)
NewButtons(ev) == IF ev.pointerType = "touch" THEN NoButtons ELSE ev.buttons

\* C21: in the legacy and gin handlers the actionButton of a written message
\* is (new and not prev) on down, (prev and not new) on up and 0 on move and
\* cancel, prev being what the button map held for that pointerId before the
\* event; the map then holds new, or nothing after an up or a cancel, and no
\* other entry of the map changes.
C21_ButtonEdges ==
    [][(build # "pkg" /\ touchResult' = "sent") =>
          LET ev == touchEv'
              pid == touchMsg'.pointerId
              prev == pointerButtons[pid]
              new == NewButtons(ev)
          IN /\ touchMsg'.actionButton =
                   (CASE ev.typ = "down" -> new \ prev
                      [] ev.typ = "up" -> prev \ new
                      [] OTHER -> NoButtons)
             /\ pointerButtons' =
                   [pointerButtons EXCEPT
                       ![pid] = IF ev.typ \in {"up", "cancel"} THEN NoButtons ELSE new]]_vars

\* a mouse button that was stored as down is reported as released by an up
C21_Witness ==
    /\ build # "pkg"
    /\ touchEv.typ = "up"
    /\ touchEv.pointerType = "mouse"
    /\ touchResult = "sent"
    /\ touchMsg.actionButton = {1}
    /\ pointerButtons[0] = NoButtons

\* byte string n has the start code 00 00 01 somewhere in it
RECURSIVE HasStartCode(_, _)
HasStartCode(n, i) ==
    IF i + 2 > Len(n) THEN FALSE
    ELSE (n[i] = 0 /\ n[i + 1] = 0 /\ n[i + 2] = 1) \/ HasStartCode(n, i + 1)

\* what H.264 asks of a NAL unit in a byte stream: no start code inside (the
\* emulation prevention byte sees to that) and a last byte other than 00
WellFormed(n) == Len(n) > 0 /\ n[Len(n)] # 0 /\ ~HasStartCode(n, 1)

\* C22 as stated: the split of the concatenation of start code + NAL unit is
\* the list of NAL units, for any non-empty list of byte strings.
C22_RoundTripAny ==
    annexb.done => annexb.out = annexb.nalus

\* C22: the split of the concatenation of start code + NAL unit is the list
\* of NAL units, for any non-empty list of NAL units that do not end in 00
\* and hold no start code.
C22_RoundTrip ==
    (annexb.done /\ \A i \in 1..Len(annexb.nalus) : WellFormed(annexb.nalus[i]))
        => annexb.out = annexb.nalus

\* two units, the first with a zero inside, behind start codes of both lengths
C22_Witness ==
    /\ annexb.done
    /\ Len(annexb.nalus) = 2
    /\ \A i \in 1..2 : WellFormed(annexb.nalus[i])
    /\ \E j \in 1..Len(annexb.nalus[1]) : annexb.nalus[1][j] = 0
    /\ Len(annexb.buf) = Len(annexb.nalus[1]) + Len(annexb.nalus[2]) + 7
    /\ annexb.out = annexb.nalus

\* the reader is about to run the new-SPS block of the gate
AtNewSPSBlock ==
    /\ readerPc = "ops"
    /\ cur.newSPS
    /\ \E i \in 1..Len(Head(ops)) : Head(ops)[i].op = "setNeed"

\* the reader is about to run the wait block of a frame whose new SPS took
\* the device out of Streaming
AtWaitBlockAfterNewSPS ==
    /\ readerPc = "ops"
    /\ cur.newSPS
    /\ frameCount \in enteredAt
    /\ \E i \in 1..Len(Head(ops)) : Head(ops)[i].op = "incKF"

\* C23: a device in Streaming that reads an AU with an SPS other than the
\* cached one sets needKeyframe and writes exactly one RESET_VIDEO while it
\* handles that AU: one in the new-SPS block, none in the wait block.
C23_NewSPSOneRequest ==
    [][/\ (AtNewSPSBlock /\ ~needKeyframe["d1"] /\ ops' = Tail(ops))
            => /\ needKeyframe'["d1"]
               /\ resetWrites'["d1"] = resetWrites["d1"] + 1
       /\ (AtWaitBlockAfterNewSPS /\ ops' = Tail(ops))
            => resetWrites'["d1"] = resetWrites["d1"]]_vars

\* the reader is about to run the wait block of the gate: the device is in
\* Needs-Keyframe for the frame in hand
AtWaitBlock ==
    /\ readerPc = "ops"
    /\ \E i \in 1..Len(Head(ops)) : Head(ops)[i].op = "incKF"

\* C24: in Needs-Keyframe the gate writes a keyframe request for the frame in
\* hand exactly when that frame is the 30th, 60th, ... counted in that state,
\* and no request for any other frame.
C24_ReaskEvery30 ==
    [][(AtWaitBlock /\ ops' = Tail(ops))
          => resetWrites'["d1"] =
                resetWrites["d1"] + (IF framesSinceKF' % 30 = 0 THEN 1 ELSE 0)]_vars

\* the frame numbers of the access units on a track, in the order written
RECURSIVE AUsOf(_)
AUsOf(log) ==
    IF log = <<>> THEN <<>>
    ELSE IF Head(log).isAU THEN <<Head(log).au>> \o AUsOf(Tail(log))
    ELSE AUsOf(Tail(log))

\* C25: on every track the access units of the device are in the order the
\* reader took them from the video socket: none is written ahead of one that
\* was read earlier.
C25_SourceOrder ==
    \A s \in Subs :
        LET aus == AUsOf(trackLog[s]) IN
        \A a, b \in 1..Len(aus) : a < b => aus[a] < aus[b]

\* both frames of the device were written to the track of s1, none dropped
C25_Witness ==
    /\ AUsOf(trackLog["s1"]) = <<1, 2>>
    /\ framesDropped = 0
    /\ frameCount = MaxAU

\* the last entry of a track
LastWritten(s) == trackLog[s][Len(trackLog[s])]

C27_PTS0Fixed ==
    [][/\ (havePTS0' /\ frameCount' > 0)
            => (pts0' = U64(PtsOf(1)) /\ rtpTS0' = Zero32)
       /\ havePTS0 => (havePTS0' /\ pts0' = pts0 /\ rtpTS0' = rtpTS0)]_vars

\* C28: no task starts a control write, that is asks for or holds the control
\* mutex, while it holds the device state lock.
C28_NoWriteUnderStateLock ==
    \A t \in Tasks :
        (~Done(t) /\ NextOp(t).lock = "controlMu") => locks.held["StateMu"] # t

\* task t is stopped at a Lock that somebody holds
Waiting(t) == ~Done(t) /\ NextOp(t).op = "lock" /\ locks.held[NextOp(t).lock] # None
HolderFor(t) == locks.held[NextOp(t).lock]

\* the tasks that can still get on: those not waiting, and those waiting for a
\* lock whose holder can get on
RECURSIVE GetOn(_)
GetOn(S) ==
    LET S2 == S \cup {t \in Tasks : Waiting(t) /\ HolderFor(t) \in S}
    IN IF S2 = S THEN S ELSE GetOn(S2)

\* C29: no task waits for a lock in a circle of waiting tasks, and no task
\* asks for the slot mutex while it holds the button mutex.
C29_NoDeadlock ==
    /\ GetOn({t \in Tasks : ~Waiting(t)}) = Tasks
    /\ \A t \in Tasks :
          (~Done(t) /\ NextOp(t).op = "lock" /\ NextOp(t).lock = "touchMu")
             => locks.held["pointerMu"] # t

\* a task waits for a lock whose holder itself waits, for the control mutex,
\* and the touch handler is at its button mutex with a slot taken and released
C29_Witness ==
    /\ \E t \in Tasks : Waiting(t) /\ Waiting(HolderFor(t)) /\ HolderFor(t) # t
    /\ ~Done("touch") /\ NextOp("touch").lock = "pointerMu"

\* C30: the chunks of one message are next to each other on the control
\* socket: between two chunks of a task no chunk of another task.
C30_MessagesWhole ==
    \A i, j, k \in 1..Len(locks.sock) :
        (i < j /\ j < k /\ locks.sock[i].task = locks.sock[k].task)
            => locks.sock[j].task = locks.sock[i].task

\* a touch message, a GET_CLIPBOARD and a RESET_VIDEO are all on the socket,
\* the touch message between the other two
C30_Witness ==
    /\ Len(locks.sock) >= 5
    /\ \E i \in 2..(Len(locks.sock) - 2) :
          /\ locks.sock[i].msg = "touch" /\ locks.sock[i + 1].msg = "touch"
          /\ locks.sock[i - 1].msg # "touch" /\ locks.sock[i + 2].msg # "touch"

\* C31: after the video read of a device has failed, eventually the queue of
\* the device is closed and its sender task has ended (in main.go the whole
\* process ends); no sender stays blocked on the queue of an ended device.
C31_SenderEnds ==
    (readerPc = "exited") ~> (~processAlive \/ (chanClosed /\ senderPc = "exited"))

\* C32: a CLIPBOARD message of exactly 1 MiB is delivered; a longer one is
\* discarded by skipping exactly its length, and the reader goes on and parses
\* the next byte as the type of the next message: the messages parsed are the
\* messages sent, in order, each kept exactly when its length is at most 1 MiB.
C32_ClipboardLimit ==
    ctlRead.pc # "idle" =>
        /\ Len(ctlRead.seen) <= Len(ctlRead.sent)
        /\ \A i \in 1..Len(ctlRead.seen) :
              /\ ctlRead.seen[i].typ = deviceMsgTypeClipboard
              /\ ctlRead.seen[i].len = ctlRead.sent[i]
              /\ ctlRead.seen[i].kept = (ctlRead.sent[i] <= controlReadBufMax)
        /\ ctlRead.stream = StreamOf(SubSeq(ctlRead.sent, Len(ctlRead.seen) + 1,
                                            Len(ctlRead.sent)))
        /\ (ctlRead.pc = "ended" => Len(ctlRead.seen) = Len(ctlRead.sent))

C32_Witness ==
    /\ ctlRead.pc = "ended"
    /\ ctlRead.sent = <<controlReadBufMax + 1, controlReadBufMax>>
    /\ Len(ctlRead.seen) = 2
    /\ ~ctlRead.seen[1].kept
    /\ ctlRead.seen[2].kept

\* C33: a failure while setting up or reading the stream of one device, a
\* premature EOF in the 64-byte name or the 12-byte header included, ends that
\* device only: every other device and the HTTP service stay as they were.
C33_FailureEndsOneDevice ==
    [][\A d \in Devices :
          (boot.phase[d] # "ended" /\ boot'.phase[d] = "ended")
          => /\ boot'.up
             /\ \A e \in Devices \ {d} : boot'.phase[e] = boot.phase[e]]_vars

\* the chunks s is made of are whole messages, one after the other
RECURSIVE WholeMessages(_)
WholeMessages(s) ==
    \/ s = <<>>
    \/ /\ Len(s) >= Chunks(Head(s).msg)
       /\ \A i \in 1..Chunks(Head(s).msg) : s[i] = Head(s)
       /\ WholeMessages(SubSeq(s, Chunks(Head(s).msg) + 1, Len(s)))

\* C34: what is written to the control socket is a concatenation of complete
\* messages: a message cut short by a failed write is the last thing on the
\* socket, no later message is written behind the partial prefix.
C34_NothingBehindPrefix ==
    \E n \in 0..Len(locks.sock) :
        /\ WholeMessages(SubSeq(locks.sock, 1, n))
        /\ \A i \in (n + 1)..Len(locks.sock) : locks.sock[i] = locks.sock[Len(locks.sock)]
        /\ Len(locks.sock) - n < MaxChunks

\* the messages of s for pointer id p
RECURSIVE OfPointer(_, _)
OfPointer(s, p) ==
    IF s = <<>> THEN <<>>
    ELSE IF Head(s).pointerID = p THEN <<Head(s)>> \o OfPointer(Tail(s), p)
    ELSE OfPointer(Tail(s), p)

IsPrefix(a, b) == Len(a) <= Len(b) /\ SubSeq(b, 1, Len(a)) = a

\* C35: with touch events handled concurrently, the messages on the control
\* socket for any one pointer id are in the order in which the slot mapper
\* processed them: a down that reuses a just-freed slot is never written
\* before the up or cancel that freed the slot.
C35_WireOrder ==
    \A p \in Slots : IsPrefix(OfPointer(dcs.wire, p), OfPointer(dcs.mapped, p))

\* C36: an /offer that ends with an error response (400, 404 or 500) leaves no
\* subscriber registered and no open peer connection behind: every subscriber
\* in the registry belongs to a request that was not refused.
C36_RefusedLeavesNothing ==
    \A s \in Subs :
        offerStatus[s] \in {400, 404, 500} => (s \notin clients /\ phase[s] = "idle")

\* C37: when a subscriber goes away (its peer connection Failed, Closed or
\* Disconnected) while pointers of its browser are down, the slots of those
\* pointers are released.
C37_GoneFreesSlots ==
    [][\A c \in Chans :
          (pcState[SubOf(c)] \notin PCStates /\ pcState'[SubOf(c)] \in PCStates)
          => \A r \in SharedRemotes :
                <<c, r>> \in dcs.own => touchLocalByRemote'[r] = NoSlot]_vars

\* C38: an up, cancel or move of subscriber B for a pointer id that only
\* subscriber A has down does not free or move A's slot and writes nothing for
\* it.
C38_OwnPointersOnly ==
    [][\A a, b \in Chans :
          (/\ dcs'.n = dcs.n + 1
           /\ dcs'.last.c = b /\ a # b
           /\ dcs'.last.typ \in {"up", "cancel", "move"}
           /\ <<a, dcs'.last.r>> \in dcs.own
           /\ <<b, dcs'.last.r>> \notin dcs.own)
          => /\ touchLocalByRemote' = touchLocalByRemote
             /\ dcs'.pc[b] = "idle"]_vars

\* C39: after every slot-mapper operation the three tables agree: a slot is
\* used exactly when some remote id maps to it, and then remoteByLocal of the
\* slot is that remote id; localByRemote is injective; as many slots are used
\* as remote ids are mapped.
C39_TablesAgree ==
    LET mapped == {r \in Remotes : touchLocalByRemote[r] # NoSlot} IN
    /\ \A s \in Slots : touchSlotUsed[s] <=> \E r \in mapped : touchLocalByRemote[r] = s
    /\ \A r \in mapped : touchRemoteByLocal[touchLocalByRemote[r]] = r
    /\ \A r1, r2 \in mapped : touchLocalByRemote[r1] = touchLocalByRemote[r2] => r1 = r2
    /\ Cardinality({s \in Slots : touchSlotUsed[s]}) = Cardinality(mapped)

\* C40: the two PTS-to-RTP mappings, rtpTSFromPTS with (delta * 90000) /
\* 1000000 and video.RTPTSFromPTS with (delta * 9) / 100, return the same
\* 32-bit value for every pair of 64-bit inputs (pts, base).
C40_SameMapping ==
    ptsConv.done =>
        rtpTSFromPTS(ptsConv.pts, ptsConv.base) = RTPTSFromPTS(ptsConv.pts, ptsConv.base)

=============================================================================
